---- MODULE Spec2Model ----
(***************************************************************************)
(* Lethe: lock-free log rotation.  A state machine of the write-and-rotate *)
(* core of lethe.go, of the ring buffer and consumer (unnamed/part_001)    *)
(* and of the rotation code (unnamed/part_003): the Writer Facade (Write,  *)
(* WriteOwned, Rotate, Close), the sync write path, the async path with    *)
(* its ring buffer and consumer goroutine, and the rotation coordinator.   *)
(*                                                                         *)
(* Every payload is one byte long and is identified by the number of the   *)
(* Write call that carries it, so a file's content is the sequence of the  *)
(* call numbers whose bytes it holds and its size is the sequence length.  *)
(* An os.File handle and the file it opens share one number: the code      *)
(* opens each file it creates exactly once.                                *)
(***************************************************************************)
EXTENDS Integers, Sequences, FiniteSets, TLC

\* ---------------------------------------------------------------- bounds
\* number of Write / WriteOwned calls issued in a behaviour
MaxWrites == 2
\* number of Rotate calls issued in a behaviour
MaxRotates == 1
\* the ring of the model has 2^RingBits slots
RingBits == 0
\* the clock (seconds) runs from 1 to MaxClock
MaxClock == 2
\* number of file-system operations that fail after their retries
MaxFaults == 1
\* number of Write calls of a behaviour of the routing specification
MaxScaleWrites == 3
\* background specification: number of Write calls, of Rotate calls, the
\* last second of its clock, and the capacity of the task queue (100 in
\* newBackgroundWorkers)
MaxBgWrites == 1
MaxBgRotates == 2
MaxBgClock == 2
QueueCap == 3
\* pool specification: number of Rotate calls, of WaitForBackgroundTasks
\* calls and of Close calls
MaxPoolRotates == 1
MaxBgWaits == 1
MaxBgCloses == 2

Producers == {"p1", "p2"}
Cons == "c"
Threads == Producers \cup {Cons}
NoThread == "none"
\* the configurations: Async, BackpressurePolicy, the size threshold in
\* bytes, the age threshold in seconds, and whether the path passes
\* ValidatePathLength
Configs ==
    { [async |-> a, policy |-> p, size |-> th[1], age |-> th[2], valid |-> v] :
        a \in BOOLEAN, p \in {"fallback", "drop"},
        th \in {<<1, 0>>, <<0, 1>>}, v \in BOOLEAN }
    \ { c \in [async : {FALSE}, policy : {"drop"}, size : 0..1, age : 0..1,
               valid : BOOLEAN] : TRUE }

VARIABLES
    \* configuration (Logger fields set by the caller)
    Async, BackpressurePolicy, maxSizeBytes, MaxAge, pathValid,
    \* File Handle Cell and rotation state
    currentFile, bytesWritten, rotationSeq, rotationFlag, fileCreated,
    initMutex,
    \* the file system: handles/files, the primary path, the backup paths
    files, primary, backups,
    \* MPSC state
    buffer, rings, consumer, ctxDone,
    \* metrics
    writeCount, contentionCount, totalLatency, lastLatency, droppedCount,
    \* environment: clock, injected failures, error sink, Close, Rotate calls
    now, faults, errors, closeState, rotates,
    \* threads: position, locals, and the record of every Write call
    pc, local, calls,
    \* routing record of the facade
    lastRoute, scaleSteps,
    \* background pipeline: configuration, the rotated artifacts on disk,
    \* the worker pool (bgWorkers, its context, queue and counter), the
    \* workers' positions and locals, and the record of the calls made
    Compress, Checksum, MaxBackups, MaxFileAge,
    disk, bgWorkers, bgCtxDone, queueClosed, taskQueue, tasks, activeTasks,
    wpc, wlocal, closeResults, waitLeft, bgSteps,
    \* construction and rotation predicate: the LoggerConfig handed to
    \* NewWithConfig, what it returned, the wall clock and the instant the
    \* file was opened (nanoseconds), and the last answer of shouldRotate
    config, ctorPc, logger, newErr, wall, opened, verdict,
    \* ring sizing: the BufferSize field, the length and mask of every ring
    \* installed in Logger.buffer, and the ring each producer holds in
    \* tryAdaptiveResize
    BufferSize, installed, resizing,
    \* the ring in steps of one memory access: each thread's position and
    \* locals in writeAsync / push / pop / tryAdaptiveResize, and the record
    \* of what was accepted, reserved, popped, returned and written
    rpc, rl, accepted, reservedAt, poppedLog, results, written,
    \* one RetryFileOperation call: its arguments, its locals and its result
    retry

cfgVars == <<Async, BackpressurePolicy, maxSizeBytes, MaxAge, pathValid>>
cellVars == <<currentFile, bytesWritten, rotationSeq, rotationFlag, fileCreated, initMutex>>
fsVars == <<files, primary, backups>>
ringVars == <<buffer, rings, consumer, ctxDone>>
metricVars == <<writeCount, contentionCount, totalLatency, lastLatency, droppedCount>>
envVars == <<now, faults, errors, closeState, rotates>>
procVars == <<pc, local, calls>>
scaleVars == <<lastRoute, scaleSteps>>
bgCfgVars == <<Compress, Checksum, MaxBackups, MaxFileAge>>
poolVars == <<bgWorkers, bgCtxDone, queueClosed, taskQueue, tasks, activeTasks>>
workerVars == <<wpc, wlocal>>
bgVars == <<bgCfgVars, disk, poolVars, workerVars, closeResults, waitLeft, bgSteps>>
ctorVars == <<config, ctorPc, logger, newErr, wall, opened, verdict>>
sizeVars == <<BufferSize, installed, resizing>>
ringRunVars == <<rpc, rl, accepted, reservedAt, poppedLog, results, written>>
retryVars == <<retry>>
unitVars == <<ctorVars, sizeVars, ringRunVars, retryVars>>
progVars == <<cfgVars, cellVars, fsVars, ringVars, metricVars, envVars, procVars, scaleVars, bgVars>>
vars == <<progVars, unitVars>>

\* ---------------------------------------------------------------- helpers
\* a nil *LoggerConfig, a nil *Logger
NilConfig == [nil |-> TRUE]
NilLogger == [nil |-> TRUE]

\* no NewWithConfig call has been made and shouldRotate has not been asked
CtorOff ==
    /\ config = NilConfig
    /\ ctorPc = "off"
    /\ logger = NilLogger
    /\ newErr = ""
    /\ wall = 0
    /\ opened = 0
    /\ verdict = [called |-> FALSE]

\* no ring has been sized
SizeOff ==
    /\ BufferSize = 0
    /\ installed = <<>>
    /\ resizing = [t \in Producers |-> 0]

\* the locals of a thread that is in no call
NoRl == [id |-> 0, buf |-> 0, tail |-> 0, head |-> 0, attempt |-> 0,
         newbuf |-> 0, drained |-> 0, got |-> 0, events |-> <<>>]

\* no thread has touched the ring
RingOff ==
    /\ rpc = [t \in Threads |-> "off"]
    /\ rl = [t \in Threads |-> NoRl]
    /\ accepted = {}
    /\ reservedAt = <<>>
    /\ poppedLog = <<>>
    /\ results = <<>>
    /\ written = <<>>

\* no RetryFileOperation call is being followed
NilError == [nil |-> TRUE, retries |-> 0, cause |-> 0]
NoRetry == [pc |-> "off", operation |-> {}, n |-> 0, d |-> 0, retryCount |-> 0,
            retryDelay |-> 0, i |-> 0, lastErr |-> 0, calls |-> 0, slept |-> 0,
            ret |-> NilError]
RetryOff == retry = NoRetry

UnitOff == CtorOff /\ SizeOff /\ RingOff /\ RetryOff

NoFile == 0
Timestamps == 1..MaxClock

NoLocal == [data |-> 0, file |-> 0, slot |-> 0,
            backup |-> 0, failed |-> FALSE, final |-> FALSE]

SetPc(t, p) == pc' = [pc EXCEPT ![t] = p]

\* the bytes a call hands to Write: one byte, tagged with the call number
Data(id) == <<id>>

IsOpen(f) == f # NoFile /\ files[f].open

\* ---------------------------------------------------------------- background pool
\* newBackgroundWorkers(2) (unnamed/part_003:478): the worker goroutines
Workers == {"w1", "w2"}

\* the files matching Filename.*: for a backup name F (Filename and a
\* timestamp) the rotated file F, the compressed F.gz, the temporary
\* F.gz.tmp, and the checksum sidecars F.sha256 and F.gz.sha256
Exts == {"", ".gz", ".gz.tmp", ".sha256", ".gz.sha256"}
BgTimestamps == 1..MaxBgClock
Paths == [ts : BgTimestamps, ext : Exts]
Path(ts, ext) == [ts |-> ts, ext |-> ext]

\* a directory entry: ino tells the files compressFile creates apart (the
\* task that created the file), and is 0 for every other file
NoEntry == [exists |-> FALSE, content |-> <<>>, mtime |-> 0, ino |-> 0]
Entry(c, m) == [exists |-> TRUE, content |-> c, mtime |-> m, ino |-> 0]

\* the complete gzip stream of a content, and the SHA-256 digest of one
gzip(c) == <<"gzip", c>>
sha256(c) == <<"sha256", c>>

NoWLocal == [task |-> 0, ts |-> 0, src |-> <<>>, target |-> "", hash |-> <<>>,
             matches |-> {}, kept |-> {}, mtimes |-> <<>>, at |-> 0, ino |-> 0]

\* no pool, no artifact, no call made yet
InitPool ==
    /\ disk = [p \in Paths |-> NoEntry]
    /\ bgWorkers = FALSE
    /\ bgCtxDone = FALSE
    /\ queueClosed = FALSE
    /\ taskQueue = <<>>
    /\ tasks = <<>>
    /\ activeTasks = 0
    /\ wpc = [w \in Workers |-> "w_off"]
    /\ wlocal = [w \in Workers |-> NoWLocal]
    /\ closeResults = <<>>
    /\ waitLeft = {}
    /\ bgSteps = [writes |-> 0, rotates |-> 0, waits |-> 0, stops |-> 0,
                  fileCloses |-> 0, swept |-> 0, sweptAt |-> 0]

\* time.Second, in the nanoseconds of a time.Duration
Second == 1000000000

\* the background features are off: MaxBackups = 0, MaxFileAge = 0,
\* Compress = false, Checksum = false
BgOff ==
    /\ Compress = FALSE
    /\ Checksum = FALSE
    /\ MaxBackups = 0
    /\ MaxFileAge = 0
    /\ InitPool

\* the tasks scheduleBackgroundTasks submits for a backup name, in its
\* order: cleanup, checksum, compress (unnamed/part_003:487-512)
wantedTasks(ts) ==
    (IF MaxBackups > 0 THEN <<[type |-> "cleanup", ts |-> ts]>> ELSE <<>>)
    \o (IF Checksum THEN <<[type |-> "checksum", ts |-> ts]>> ELSE <<>>)
    \o (IF Compress THEN <<[type |-> "compress", ts |-> ts]>> ELSE <<>>)

\* scheduleBackgroundTasks (unnamed/part_003:476-513) with safeSubmitTask
\* (unnamed/part_003:516-539): the pool is created at the first call; a
\* task is not submitted when the context is cancelled, and is skipped
\* when the queue is full
scheduleBackgroundTasks(ts) ==
    LET w == wantedTasks(ts)
        room == IF bgCtxDone THEN 0 ELSE QueueCap - Len(taskQueue)
        n == IF Len(w) <= room THEN Len(w) ELSE room
    IN  /\ bgWorkers' = TRUE
        /\ wpc' = IF bgWorkers THEN wpc ELSE [x \in Workers |-> "w_wait"]
        /\ tasks' = tasks \o [i \in 1..Len(w) |->
                                 [type |-> w[i].type, ts |-> w[i].ts,
                                  state |-> IF i <= n THEN "queued" ELSE "skipped"]]
        /\ taskQueue' = taskQueue \o [i \in 1..n |-> Len(tasks) + i]
        /\ UNCHANGED <<bgCtxDone, queueClosed, activeTasks>>

\* ---------------------------------------------------------------- facade
\* the adaptive predicate without its first condition
shouldScaleNoContention(wc, cc, total, last) ==
    IF wc < 100 THEN FALSE
    ELSE \/ (total \div wc) > 1000000
         \/ last > 5000000
         \/ 10 * cc > wc

\* shouldScaleToMPSC (lethe.go:709): the adaptive predicate on the metrics
shouldScaleToMPSC(wc, cc, total, last) ==
    IF wc < 100 THEN FALSE
    ELSE \/ (cc > 0 /\ wc > 1000)
         \/ (total \div wc) > 1000000
         \/ last > 5000000
         \/ 10 * cc > wc

\* the dispatch of Write / WriteOwned (lethe.go:600-609), after the
\* increment of writeCount
Route(async, wc, cc, total, last) ==
    IF async THEN "async"
    ELSE IF shouldScaleToMPSC(wc, cc, total, last) THEN "async"
    ELSE "sync"

\* shouldRotate (lethe.go:950): size threshold, then age threshold
shouldRotate(currentSize) ==
    \/ (maxSizeBytes > 0 /\ currentSize >= maxSizeBytes)
    \/ (MaxAge > 0 /\ fileCreated > 0 /\ now - fileCreated >= MaxAge)

\* the age clause of shouldRotate holds now (lethe.go:978-988)
ageElapsed == MaxAge > 0 /\ fileCreated > 0 /\ now - fileCreated >= MaxAge

\* a call of Write / WriteOwned returns: (len(data), nil) or an error.
Returned(t, ok) ==
    LET id == local[t].data
        res == IF ok THEN "ok" ELSE "err"
    IN  /\ calls' = [calls EXCEPT ![id].res = res]
        /\ local' = [local EXCEPT ![t] = NoLocal]
        /\ SetPc(t, "idle")

\* the deferred latency record of writeSync (lethe.go:762-772); the cached
\* clock has a resolution of a millisecond and a write of this
\* specification completes within it
RecordLatency(lat) ==
    /\ lastLatency' = lat
    /\ totalLatency' = totalLatency + lat

\* Write (lethe.go:596) and WriteOwned (lethe.go:631): the two dispatch
\* alike, and writeAsyncOwned is writeAsync with pushOwned for push, which
\* differs from it in the copy of the payload only.  The producers are
\* interchangeable: the first call is p1's.
Write(t) ==
    /\ pc[t] = "idle"
    /\ closeState = "open"
    /\ (writeCount = 0 /\ rotates = 0) => t = "p1"
    /\ writeCount < MaxWrites
    /\ writeCount' = writeCount + 1
    /\ calls' = Append(calls, [thread |-> t, res |-> "pending", aged |-> ageElapsed])
    /\ local' = [local EXCEPT ![t] = [NoLocal EXCEPT !.data = writeCount + 1]]
    /\ LET r == Route(Async, writeCount + 1, contentionCount, totalLatency, lastLatency)
       IN  /\ SetPc(t, IF r = "async" THEN "wa_init" ELSE "ws_init")
           /\ lastRoute' = r
    /\ UNCHANGED <<cfgVars, cellVars, fsVars, ringVars, envVars, scaleSteps>>
    /\ UNCHANGED <<contentionCount, totalLatency, lastLatency, droppedCount>>
    /\ UNCHANGED <<bgVars, unitVars>>

\* ---------------------------------------------------------------- lazy init
\* initFile up to currentFile.Store (unnamed/part_003:253-354), entered with the
\* initMutex taken and the cell found nil a second time.  The outcome is
\* "ok", or an error: of validateAndSanitizePath when the path is invalid,
\* of openLogFile when the open fails after its retries.
initFileOpen(t, okPc, errPc, fault) ==
    /\ currentFile = NoFile
    /\ initMutex = NoThread
    /\ IF ~pathValid
       THEN /\ ~fault
            /\ SetPc(t, errPc)
            /\ UNCHANGED <<cellVars, fsVars, faults, errors>>
       ELSE IF fault
       THEN /\ faults < MaxFaults
            /\ faults' = faults + 1
            /\ errors' = errors \cup {"file_open"}
            /\ SetPc(t, errPc)
            /\ UNCHANGED <<cellVars, fsVars>>
       ELSE /\ files' = Append(files, [content |-> <<>>, open |-> TRUE])
            /\ primary' = Len(files) + 1
            /\ currentFile' = Len(files) + 1
            /\ initMutex' = t
            /\ SetPc(t, okPc)
            /\ UNCHANGED <<bytesWritten, rotationSeq, rotationFlag, fileCreated,
                           backups, faults, errors>>

\* initFileState after the store of the handle (unnamed/part_003:356-370), then
\* the unlock of the initMutex.  The size is the one file.Stat returned
\* before the store (unnamed/part_003:343): that of the file just created.
initFileState(t, okPc) ==
    /\ initMutex = t
    /\ bytesWritten' = Len(<<>>)
    /\ fileCreated' = now
    /\ initMutex' = NoThread
    /\ SetPc(t, okPc)
    /\ UNCHANGED <<currentFile, rotationSeq, rotationFlag>>

\* ---------------------------------------------------------------- sync path
\* writeSync loads the handle and the rotation flag (lethe.go:788-796)
loadFile(t) ==
    /\ local' = [local EXCEPT ![t].file = currentFile]
    /\ contentionCount' = IF rotationFlag THEN contentionCount + 1 ELSE contentionCount
    /\ SetPc(t, "ws_write")

\* writeSync, lazy initialization (lethe.go:775-785)
SyncInit(t) ==
    /\ pc[t] = "ws_init"
    /\ \/ /\ currentFile # NoFile
          /\ loadFile(t)
          /\ UNCHANGED <<cellVars, fsVars, faults, errors>>
       \/ /\ \E fault \in BOOLEAN : initFileOpen(t, "ws_init2", "ws_fail", fault)
          /\ UNCHANGED <<local, contentionCount>>
    /\ UNCHANGED <<cfgVars, ringVars, now, closeState, rotates, scaleVars>>
    /\ UNCHANGED <<writeCount, droppedCount, calls, lastLatency, totalLatency>>
    /\ UNCHANGED <<bgVars, unitVars>>

\* writeSync returns (0, err) of initFile (lethe.go:779-782)
SyncInitFail(t) ==
    /\ pc[t] = "ws_fail"
    /\ Returned(t, FALSE)
    /\ RecordLatency(0)
    /\ UNCHANGED <<cfgVars, cellVars, fsVars, ringVars, envVars, scaleVars>>
    /\ UNCHANGED <<writeCount, contentionCount, droppedCount>>
    /\ UNCHANGED <<bgVars, unitVars>>

SyncInitState(t) ==
    /\ pc[t] = "ws_init2"
    /\ initFileState(t, "ws_load")
    /\ UNCHANGED <<cfgVars, fsVars, ringVars, metricVars, envVars, local, calls, scaleVars>>
    /\ UNCHANGED <<bgVars, unitVars>>

\* writeSync after its lazy initialization (lethe.go:788-796)
SyncLoad(t) ==
    /\ pc[t] = "ws_load"
    /\ loadFile(t)
    /\ UNCHANGED <<cfgVars, cellVars, fsVars, ringVars, envVars, calls, scaleVars>>
    /\ UNCHANGED <<writeCount, totalLatency, lastLatency, droppedCount>>
    /\ UNCHANGED <<bgVars, unitVars>>

\* file.Write (lethe.go:799-802): an error on a closed handle
SyncWrite(t) ==
    /\ pc[t] = "ws_write"
    /\ IF IsOpen(local[t].file)
       THEN /\ files' = [files EXCEPT ![local[t].file].content = @ \o Data(local[t].data)]
            /\ SetPc(t, "ws_add")
            /\ UNCHANGED <<local, calls, lastLatency, totalLatency>>
       ELSE /\ Returned(t, FALSE)
            /\ RecordLatency(0)
            /\ UNCHANGED files
    /\ UNCHANGED <<cfgVars, cellVars, primary, backups, ringVars, envVars, scaleVars>>
    /\ UNCHANGED <<writeCount, contentionCount, droppedCount>>
    /\ UNCHANGED <<bgVars, unitVars>>

\* bytesWritten.Add and the rotation check (lethe.go:808-815)
SyncAdd(t) ==
    /\ pc[t] = "ws_add"
    /\ bytesWritten' = bytesWritten + Len(Data(local[t].data))
    /\ IF shouldRotate(bytesWritten + Len(Data(local[t].data)))
       THEN /\ SetPc(t, "tr_cas")
            /\ UNCHANGED <<local, calls, lastLatency, totalLatency>>
       ELSE /\ Returned(t, TRUE)
            /\ RecordLatency(0)
    /\ UNCHANGED <<currentFile, rotationSeq, rotationFlag, fileCreated, initMutex>>
    /\ UNCHANGED <<cfgVars, fsVars, ringVars, envVars, scaleVars>>
    /\ UNCHANGED <<writeCount, contentionCount, droppedCount>>
    /\ UNCHANGED <<bgVars, unitVars>>

\* ---------------------------------------------------------------- rotation
\* a Store(true) in place of the CAS: every caller claims the rotation
claimRotationUnguarded == TRUE

\* rotationFlag.CompareAndSwap(false, true) succeeds (lethe.go:1007)
claimRotation == rotationFlag = FALSE

\* triggerRotation returns to its caller: writeSync returns (n, nil)
\* (lethe.go:815), writeToFile returns to flushAll (unnamed/part_001:330-337),
\* Rotate returns nil (lethe.go:1306)
RotationReturn(t) ==
    IF t = Cons
    THEN /\ local' = [local EXCEPT ![t] = [NoLocal EXCEPT !.final = local[t].final]]
         /\ SetPc(t, "c_pop")
         /\ UNCHANGED <<calls, lastLatency, totalLatency>>
    ELSE IF local[t].data # 0
    THEN /\ Returned(t, TRUE)
         /\ RecordLatency(0)
    ELSE /\ local' = [local EXCEPT ![t] = NoLocal]
         /\ SetPc(t, "idle")
         /\ UNCHANGED <<calls, lastLatency, totalLatency>>

\* triggerRotation: the CAS on the flag, and on success the start of
\* performRotation: the load of the handle and generateBackupName
\* (lethe.go:1004-1009, unnamed/part_003:374-381, 394-405)
TriggerRotation(t) ==
    /\ pc[t] = "tr_cas"
    /\ IF claimRotation
       THEN /\ rotationFlag' = TRUE
            /\ IF currentFile = NoFile
               THEN /\ local' = [local EXCEPT ![t].failed = TRUE]
                    /\ SetPc(t, "tr_exit")
               ELSE /\ local' = [local EXCEPT ![t].file = currentFile, ![t].backup = now]
                    /\ SetPc(t, "rot_close")
            /\ UNCHANGED <<calls, lastLatency, totalLatency>>
       ELSE /\ RotationReturn(t)
            /\ UNCHANGED rotationFlag
    /\ UNCHANGED <<currentFile, bytesWritten, rotationSeq, fileCreated, initMutex>>
    /\ UNCHANGED <<cfgVars, fsVars, ringVars, envVars, scaleVars>>
    /\ UNCHANGED <<writeCount, contentionCount, droppedCount>>
    /\ UNCHANGED <<bgVars, unitVars>>

\* closeAndRotateFile, close with retry (unnamed/part_003:430-435).  Close of an
\* os.File releases the descriptor whatever it returns, and returns an
\* error on a handle that is already closed.
RotateClose(t) ==
    /\ pc[t] = "rot_close"
    /\ files' = [files EXCEPT ![local[t].file].open = FALSE]
    /\ \E fault \in BOOLEAN :
          IF fault \/ ~IsOpen(local[t].file)
          THEN /\ fault => (IsOpen(local[t].file) /\ faults < MaxFaults)
               /\ faults' = IF fault THEN faults + 1 ELSE faults
               /\ local' = [local EXCEPT ![t].failed = TRUE]
               /\ SetPc(t, "tr_exit")
          ELSE /\ SetPc(t, "rot_rename")
               /\ UNCHANGED <<faults, local>>
    /\ UNCHANGED <<cfgVars, cellVars, primary, backups, ringVars, metricVars, scaleVars>>
    /\ UNCHANGED <<now, errors, closeState, rotates, calls>>
    /\ UNCHANGED <<bgVars, unitVars>>

\* os.Rename(l.Filename, backupName) with retry (unnamed/part_003:438-443): the
\* rename replaces a file that already has the backup name
RotateRename(t) ==
    /\ pc[t] = "rot_rename"
    /\ \E fault \in BOOLEAN :
          IF fault \/ primary = NoFile
          THEN /\ fault => (primary # NoFile /\ faults < MaxFaults)
               /\ faults' = IF fault THEN faults + 1 ELSE faults
               /\ local' = [local EXCEPT ![t].failed = TRUE]
               /\ SetPc(t, "tr_exit")
               /\ UNCHANGED <<primary, backups>>
          ELSE /\ backups' = [backups EXCEPT ![local[t].backup] = primary]
               /\ primary' = NoFile
               /\ SetPc(t, "rot_open")
               /\ UNCHANGED <<faults, local>>
    /\ UNCHANGED <<cfgVars, cellVars, files, ringVars, metricVars, scaleVars>>
    /\ UNCHANGED <<now, errors, closeState, rotates, calls>>
    /\ UNCHANGED <<bgVars, unitVars>>

\* os.OpenFile(l.Filename, O_CREATE|O_WRONLY|O_APPEND) with retry and
\* currentFile.Store(newFile) (unnamed/part_003:448-461)
RotateOpen(t) ==
    /\ pc[t] = "rot_open"
    /\ \E fault \in BOOLEAN :
          IF fault
          THEN /\ faults < MaxFaults
               /\ faults' = faults + 1
               /\ local' = [local EXCEPT ![t].failed = TRUE]
               /\ SetPc(t, "tr_exit")
               /\ UNCHANGED <<files, primary, currentFile>>
          ELSE /\ files' = Append(files, [content |-> <<>>, open |-> TRUE])
               /\ primary' = Len(files) + 1
               /\ currentFile' = Len(files) + 1
               /\ SetPc(t, "rot_update")
               /\ UNCHANGED <<faults, local>>
    /\ UNCHANGED <<bytesWritten, rotationSeq, rotationFlag, fileCreated, initMutex>>
    /\ UNCHANGED <<cfgVars, backups, ringVars, metricVars, scaleVars>>
    /\ UNCHANGED <<now, errors, closeState, rotates, calls>>
    /\ UNCHANGED <<bgVars, unitVars>>

\* the state update without the rotationSeq.Add(1)
updateRotationStateNoCount ==
    /\ bytesWritten' = 0
    /\ fileCreated' = now
    /\ rotationSeq' = rotationSeq

\* updateRotationState (unnamed/part_003:465-473)
updateRotationState ==
    /\ bytesWritten' = 0
    /\ fileCreated' = now
    /\ rotationSeq' = rotationSeq + 1

\* performRotation after closeAndRotateFile returned nil
\* (unnamed/part_003:387-390): the state update and scheduleBackgroundTasks
RotateUpdate(t) ==
    /\ pc[t] = "rot_update"
    /\ updateRotationState
    /\ scheduleBackgroundTasks(local[t].backup)
    /\ SetPc(t, "tr_exit")
    /\ UNCHANGED <<currentFile, rotationFlag, initMutex>>
    /\ UNCHANGED <<cfgVars, fsVars, ringVars, metricVars, envVars, local, calls, scaleVars>>
    /\ UNCHANGED <<unitVars, bgCfgVars, disk, wlocal, closeResults, waitLeft, bgSteps>>

\* triggerRotation exits: reportError on failure, the deferred
\* rotationFlag.Store(false) (lethe.go:1010-1015), and the caller goes on
RotateExit(t) ==
    /\ pc[t] = "tr_exit"
    /\ errors' = IF local[t].failed THEN errors \cup {"rotation"} ELSE errors
    /\ rotationFlag' = FALSE
    /\ RotationReturn(t)
    /\ UNCHANGED <<currentFile, bytesWritten, rotationSeq, fileCreated, initMutex>>
    /\ UNCHANGED <<cfgVars, fsVars, ringVars, scaleVars>>
    /\ UNCHANGED <<now, faults, closeState, rotates>>
    /\ UNCHANGED <<writeCount, contentionCount, droppedCount>>
    /\ UNCHANGED <<bgVars, unitVars>>

\* Rotate (lethe.go:1304)
Rotate(t) ==
    /\ pc[t] = "idle"
    /\ closeState = "open"
    /\ (writeCount = 0 /\ rotates = 0) => t = "p1"
    /\ rotates < MaxRotates
    /\ rotates' = rotates + 1
    /\ SetPc(t, "tr_cas")
    /\ UNCHANGED <<cfgVars, cellVars, fsVars, ringVars, metricVars, scaleVars>>
    /\ UNCHANGED <<now, faults, errors, closeState, local, calls>>
    /\ UNCHANGED <<bgVars, unitVars>>

\* the clock advances by a second
Tick ==
    /\ now < MaxClock
    /\ now' = now + 1
    /\ UNCHANGED <<cfgVars, cellVars, fsVars, ringVars, metricVars, procVars, scaleVars>>
    /\ UNCHANGED <<faults, errors, closeState, rotates>>
    /\ UNCHANGED <<bgVars, unitVars>>

\* ---------------------------------------------------------------- ring
RingLen == 2 ^ RingBits

\* newRingBuffer (unnamed/part_001:93): empty slots, head = tail = 0.  The
\* code rounds the configured size up to a power of two of at least 64
\* slots; the ring here has 2^RingBits slots, and it is full, wraps and
\* empties by the same comparisons of head and tail.
newRingBuffer == [slots |-> [i \in 0..(RingLen - 1) |-> 0], head |-> 0, tail |-> 0]

\* tail & mask, head & mask (unnamed/part_001:145, 192)
SlotIndex(n) == n % RingLen

\* push / pushOwned find the ring full (unnamed/part_001:130, 163)
ringFull(r) == r.tail - r.head >= RingLen

\* pop finds the ring empty (unnamed/part_001:186)
ringEmpty(r) == r.head >= r.tail

\* ---------------------------------------------------------------- async path
\* writeAsync / writeAsyncOwned: the ring pointer is nil and the CAS of
\* initMPSC installs a new ring (lethe.go:821, 871-888)
AsyncInit(t) ==
    /\ pc[t] = "wa_init"
    /\ buffer = 0
    /\ rings' = Append(rings, newRingBuffer)
    /\ buffer' = Len(rings) + 1
    /\ SetPc(t, "mp_init")
    /\ UNCHANGED <<consumer, ctxDone>>
    /\ UNCHANGED <<cfgVars, cellVars, fsVars, metricVars, envVars, local, calls, scaleVars>>
    /\ UNCHANGED <<bgVars, unitVars>>

\* initMPSC initializes the file if needed (lethe.go:891-901); on an error
\* of initFile the caller falls back to writeSync (lethe.go:822-825)
MPSCInitFile(t) ==
    /\ pc[t] = "mp_init"
    /\ \/ /\ currentFile # NoFile
          /\ SetPc(t, "mp_consumer")
          /\ UNCHANGED <<cellVars, fsVars, faults, errors>>
       \/ \E fault \in BOOLEAN : initFileOpen(t, "mp_init2", "ws_init", fault)
    /\ UNCHANGED <<cfgVars, ringVars, metricVars, now, closeState, rotates>>
    /\ UNCHANGED <<local, calls, scaleVars>>
    /\ UNCHANGED <<bgVars, unitVars>>

MPSCInitState(t) ==
    /\ pc[t] = "mp_init2"
    /\ initFileState(t, "mp_consumer")
    /\ UNCHANGED <<cfgVars, fsVars, ringVars, metricVars, envVars, local, calls, scaleVars>>
    /\ UNCHANGED <<bgVars, unitVars>>

\* newMPSCConsumer starts the consumer goroutine on the ring initMPSC
\* created, and initMPSC stores the consumer (lethe.go:904-905,
\* unnamed/part_001:225-247)
MPSCStartConsumer(t) ==
    /\ pc[t] = "mp_consumer"
    /\ consumer' = buffer
    /\ pc' = [pc EXCEPT ![t] = "wa_push", ![Cons] = "c_wait"]
    /\ UNCHANGED <<buffer, rings, ctxDone>>
    /\ UNCHANGED <<cfgVars, cellVars, fsVars, metricVars, envVars, local, calls, scaleVars>>
    /\ UNCHANGED <<bgVars, unitVars>>

\* the backpressure switch of writeAsync / writeAsyncOwned after a failed
\* push (lethe.go:838-867): the contention counter, then the policy
Backpressure(t) ==
    /\ contentionCount' = contentionCount + 1
    /\ IF BackpressurePolicy = "drop"
       THEN /\ droppedCount' = droppedCount + 1
            /\ Returned(t, TRUE)
       ELSE /\ SetPc(t, "ws_init")
            /\ UNCHANGED <<droppedCount, local, calls>>

\* push / pushOwned reserve a slot: tail and head are loaded, the ring is
\* not full, and the CAS moves tail (unnamed/part_001:124-135, 157-168)
AsyncPush(t) ==
    /\ pc[t] \in {"wa_init", "wa_push"}
    /\ buffer # 0
    /\ IF ringFull(rings[buffer])
       THEN /\ Backpressure(t)
            /\ UNCHANGED rings
       ELSE /\ rings' = [rings EXCEPT ![buffer].tail = @ + 1]
            /\ local' = [local EXCEPT ![t].slot = rings[buffer].tail,
                                      ![t].file = buffer]
            /\ SetPc(t, "wa_store")
            /\ UNCHANGED <<contentionCount, droppedCount, calls>>
    /\ UNCHANGED <<buffer, consumer, ctxDone>>
    /\ UNCHANGED <<cfgVars, cellVars, fsVars, envVars, scaleVars>>
    /\ UNCHANGED <<writeCount, totalLatency, lastLatency>>
    /\ UNCHANGED <<bgVars, unitVars>>

\* push / pushOwned publish the payload in the reserved slot and return
\* true; the write returns (len(data), nil) (unnamed/part_001:141-146, 170-171,
\* lethe.go:834-836)
AsyncStore(t) ==
    /\ pc[t] = "wa_store"
    /\ rings' = [rings EXCEPT ![local[t].file].slots[SlotIndex(local[t].slot)] = local[t].data]
    /\ Returned(t, TRUE)
    /\ UNCHANGED <<buffer, consumer, ctxDone>>
    /\ UNCHANGED <<cfgVars, cellVars, fsVars, metricVars, envVars, scaleVars>>
    /\ UNCHANGED <<bgVars, unitVars>>

\* ---------------------------------------------------------------- consumer
\* pop up to the CAS on head (unnamed/part_001:181-191), called by flushAll
\* (unnamed/part_001:302-309): the ring is empty and flushAll returns, to the
\* select or, in the final flush, to the end of run; or the CAS moves head
pop(final) ==
    IF ringEmpty(rings[consumer])
    THEN /\ SetPc(Cons, IF final THEN "c_done" ELSE "c_wait")
         /\ local' = [local EXCEPT ![Cons] = NoLocal]
         /\ UNCHANGED rings
    ELSE /\ rings' = [rings EXCEPT ![consumer].head = @ + 1]
         /\ local' = [local EXCEPT ![Cons] = [NoLocal EXCEPT !.slot = rings[consumer].head,
                                                             !.final = final]]
         /\ SetPc(Cons, "c_load")

\* MPSCConsumer.run, the select (unnamed/part_001:257-270): the context is done
\* and the final flush starts, or the ticker fires
\* and flushAll makes its first call of pop
ConsumerSelect ==
    /\ pc[Cons] = "c_wait"
    /\ \E done \in BOOLEAN :
          /\ done => ctxDone
          /\ pop(done)
    /\ UNCHANGED <<buffer, consumer, ctxDone>>
    /\ UNCHANGED <<cfgVars, cellVars, fsVars, metricVars, envVars, calls, scaleVars>>
    /\ UNCHANGED <<bgVars, unitVars>>

\* flushAll calls pop again (unnamed/part_001:305-313)
ConsumerPop ==
    /\ pc[Cons] = "c_pop"
    /\ pop(local[Cons].final)
    /\ UNCHANGED <<buffer, consumer, ctxDone>>
    /\ UNCHANGED <<cfgVars, cellVars, fsVars, metricVars, envVars, calls, scaleVars>>
    /\ UNCHANGED <<bgVars, unitVars>>

\* pop loads the slot (unnamed/part_001:192-199): on nil it goes round its loop
ConsumerLoad ==
    /\ pc[Cons] = "c_load"
    /\ LET d == rings[consumer].slots[SlotIndex(local[Cons].slot)]
       IN  IF d = 0
           THEN /\ SetPc(Cons, "c_pop")
                /\ local' = [local EXCEPT ![Cons].slot = 0]
           ELSE /\ SetPc(Cons, "c_clear")
                /\ local' = [local EXCEPT ![Cons].data = d]
    /\ UNCHANGED <<cfgVars, cellVars, fsVars, ringVars, metricVars, envVars, calls, scaleVars>>
    /\ UNCHANGED <<bgVars, unitVars>>

\* pop clears the slot and returns the payload (unnamed/part_001:200-202), and
\* writeToFile loads the handle (unnamed/part_001:320-321)
ConsumerClear ==
    /\ pc[Cons] = "c_clear"
    /\ rings' = [rings EXCEPT ![consumer].slots[SlotIndex(local[Cons].slot)] = 0]
    /\ IF currentFile = NoFile
       THEN /\ local' = [local EXCEPT ![Cons].data = 0, ![Cons].slot = 0]
            /\ SetPc(Cons, "c_pop")
       ELSE /\ local' = [local EXCEPT ![Cons].file = currentFile, ![Cons].slot = 0]
            /\ SetPc(Cons, "c_write")
    /\ UNCHANGED <<buffer, consumer, ctxDone>>
    /\ UNCHANGED <<cfgVars, cellVars, fsVars, metricVars, envVars, calls, scaleVars>>
    /\ UNCHANGED <<bgVars, unitVars>>

\* writeToFile writes (unnamed/part_001:322-323, 337): on an error the payload
\* goes back to the pool and nothing else happens
ConsumerWrite ==
    /\ pc[Cons] = "c_write"
    /\ IF IsOpen(local[Cons].file)
       THEN /\ files' = [files EXCEPT ![local[Cons].file].content = @ \o Data(local[Cons].data)]
            /\ SetPc(Cons, "c_add")
            /\ UNCHANGED local
       ELSE /\ local' = [local EXCEPT ![Cons].data = 0, ![Cons].file = 0]
            /\ SetPc(Cons, "c_pop")
            /\ UNCHANGED files
    /\ UNCHANGED <<cfgVars, cellVars, primary, backups, ringVars, metricVars, envVars, calls, scaleVars>>
    /\ UNCHANGED <<bgVars, unitVars>>

\* writeToFile adds to bytesWritten and checks the rotation (unnamed/part_001:328-331)
ConsumerAdd ==
    /\ pc[Cons] = "c_add"
    /\ bytesWritten' = bytesWritten + Len(Data(local[Cons].data))
    /\ IF shouldRotate(bytesWritten + Len(Data(local[Cons].data)))
       THEN /\ SetPc(Cons, "tr_cas")
            /\ local' = [local EXCEPT ![Cons].data = 0, ![Cons].file = 0]
       ELSE /\ SetPc(Cons, "c_pop")
            /\ local' = [local EXCEPT ![Cons].data = 0, ![Cons].file = 0]
    /\ UNCHANGED <<currentFile, rotationSeq, rotationFlag, fileCreated, initMutex>>
    /\ UNCHANGED <<cfgVars, fsVars, ringVars, metricVars, envVars, calls, scaleVars>>
    /\ UNCHANGED <<bgVars, unitVars>>

\* ---------------------------------------------------------------- Close
\* Close, inside closeOnce.Do: the consumer is loaded and, if there is one,
\* its context is cancelled (lethe.go:1070-1076, unnamed/part_001:341-342)
\* The caller closes the logger when the producers have finished.
Close(t) ==
    /\ \A p \in Producers : pc[p] = "idle"
    /\ t = "p1"
    /\ closeState = "open"
    /\ closeState' = "closing"
    /\ IF consumer # 0
       THEN /\ ctxDone' = TRUE
            /\ SetPc(t, "cl_wait")
       ELSE /\ SetPc(t, "cl_file")
            /\ UNCHANGED ctxDone
    /\ UNCHANGED <<buffer, rings, consumer>>
    /\ UNCHANGED <<cfgVars, cellVars, fsVars, metricVars, scaleVars>>
    /\ UNCHANGED <<now, faults, errors, rotates, local, calls>>
    /\ UNCHANGED <<bgVars, unitVars>>

\* consumer.stop waits for the consumer goroutine (unnamed/part_001:343)
CloseWait(t) ==
    /\ pc[t] = "cl_wait"
    /\ pc[Cons] = "c_done"
    /\ SetPc(t, "cl_file")
    /\ UNCHANGED <<cfgVars, cellVars, fsVars, ringVars, metricVars, envVars, local, calls, scaleVars>>
    /\ UNCHANGED <<bgVars, unitVars>>

\* workers.stop of a pool whose workers all wait in their select with an
\* empty queue (lethe.go:1078-1081, unnamed/part_003:785-791): the context
\* is cancelled, the queue is closed and the workers return
stopIdleWorkers ==
    /\ bgCtxDone' = (bgCtxDone \/ bgWorkers)
    /\ queueClosed' = (queueClosed \/ bgWorkers)
    /\ wpc' = IF bgWorkers THEN [w \in Workers |-> "w_exit"] ELSE wpc
    /\ UNCHANGED bgWorkers

\* Close stops the pool, closes the current file and returns
\* (lethe.go:1078-1093)
CloseFile(t) ==
    /\ pc[t] = "cl_file"
    /\ files' = IF currentFile # NoFile
                THEN [files EXCEPT ![currentFile].open = FALSE]
                ELSE files
    /\ closeState' = "closed"
    /\ SetPc(t, "idle")
    /\ stopIdleWorkers
    /\ UNCHANGED <<cfgVars, cellVars, primary, backups, ringVars, metricVars, scaleVars>>
    /\ UNCHANGED <<now, faults, errors, rotates, local, calls>>
    /\ UNCHANGED <<unitVars, bgCfgVars, disk, taskQueue, tasks, activeTasks, wlocal>>
    /\ UNCHANGED <<closeResults, waitLeft, bgSteps>>

\* ---------------------------------------------------------------- specification
\* the program before its first call, under one of the configurations
InitProgram ==
    /\ \E c \in Configs :
          /\ Async = c.async
          /\ BackpressurePolicy = c.policy
          /\ maxSizeBytes = c.size
          /\ MaxAge = c.age
          /\ pathValid = c.valid
    /\ currentFile = NoFile
    /\ bytesWritten = 0
    /\ rotationSeq = 0
    /\ rotationFlag = FALSE
    /\ fileCreated = 0
    /\ initMutex = NoThread
    /\ files = <<>>
    /\ primary = NoFile
    /\ backups = [ts \in Timestamps |-> NoFile]
    /\ buffer = 0
    /\ rings = <<>>
    /\ consumer = 0
    /\ ctxDone = FALSE
    /\ writeCount = 0
    /\ contentionCount = 0
    /\ totalLatency = 0
    /\ lastLatency = 0
    /\ droppedCount = 0
    /\ now = 1
    /\ faults = 0
    /\ errors = {}
    /\ closeState = "open"
    /\ rotates = 0
    /\ pc = [t \in Threads |-> IF t = Cons THEN "c_off" ELSE "idle"]
    /\ local = [t \in Threads |-> NoLocal]
    /\ calls = <<>>
    /\ lastRoute = "none"
    /\ scaleSteps = 0
    /\ BgOff

Init ==
    /\ UnitOff
    /\ InitProgram

Next ==
    \/ \E t \in Producers : Write(t)
    \/ \E t \in Producers : SyncInit(t)
    \/ \E t \in Producers : SyncInitFail(t)
    \/ \E t \in Producers : SyncInitState(t)
    \/ \E t \in Producers : SyncLoad(t)
    \/ \E t \in Producers : SyncWrite(t)
    \/ \E t \in Producers : SyncAdd(t)
    \/ \E t \in Threads : TriggerRotation(t)
    \/ \E t \in Threads : RotateClose(t)
    \/ \E t \in Threads : RotateRename(t)
    \/ \E t \in Threads : RotateOpen(t)
    \/ \E t \in Threads : RotateUpdate(t)
    \/ \E t \in Threads : RotateExit(t)
    \/ \E t \in Producers : Rotate(t)
    \/ \E t \in Producers : AsyncInit(t)
    \/ \E t \in Producers : MPSCInitFile(t)
    \/ \E t \in Producers : MPSCInitState(t)
    \/ \E t \in Producers : MPSCStartConsumer(t)
    \/ \E t \in Producers : AsyncPush(t)
    \/ \E t \in Producers : AsyncStore(t)
    \/ ConsumerSelect
    \/ ConsumerPop
    \/ ConsumerLoad
    \/ ConsumerClear
    \/ ConsumerWrite
    \/ ConsumerAdd
    \/ \E t \in Producers : Close(t)
    \/ \E t \in Producers : CloseWait(t)
    \/ \E t \in Producers : CloseFile(t)
    \/ Tick

Spec == Init /\ [][Next]_vars

\* ---------------------------------------------------------------- routing specification
\* The facade's routing under the adaptive predicate, with the metrics near
\* the thresholds of shouldScaleToMPSC.  A call is two steps: the dispatch
\* of Write / WriteOwned, and the end of the call, which leaves in the
\* metrics what its path records there.
ScaleStarts ==
    { m \in [wc : {99, 999, 1000}, cc : {0, 1, 100},
             total : {0, 6000000, 101000000}, last : {0, 6000000}] :
        /\ m.last <= m.total
        /\ m.cc <= m.wc }

\* the latencies a writeSync records (nanoseconds)
Latencies == {0, 2000000, 6000000}

InitScale ==
    /\ UnitOff
    /\ Async = FALSE
    /\ BackpressurePolicy \in {"fallback", "drop"}
    /\ maxSizeBytes = 0
    /\ MaxAge = 0
    /\ pathValid = TRUE
    /\ currentFile = NoFile
    /\ bytesWritten = 0
    /\ rotationSeq = 0
    /\ rotationFlag = FALSE
    /\ fileCreated = 0
    /\ initMutex = NoThread
    /\ files = <<>>
    /\ primary = NoFile
    /\ backups = [ts \in Timestamps |-> NoFile]
    /\ buffer = 0
    /\ rings = <<>>
    /\ consumer = 0
    /\ ctxDone = FALSE
    /\ \E m \in ScaleStarts :
          /\ writeCount = m.wc
          /\ contentionCount = m.cc
          /\ totalLatency = m.total
          /\ lastLatency = m.last
    /\ droppedCount = 0
    /\ now = 1
    /\ faults = 0
    /\ errors = {}
    /\ closeState = "open"
    /\ rotates = 0
    /\ pc = [t \in Threads |-> IF t = Cons THEN "c_off" ELSE "idle"]
    /\ local = [t \in Threads |-> NoLocal]
    /\ calls = <<>>
    /\ lastRoute = "none"
    /\ scaleSteps = 0
    /\ BgOff

\* Write / WriteOwned up to the dispatch (lethe.go:596-609, 631-644)
ScaleWrite(t) ==
    /\ pc[t] = "idle"
    /\ scaleSteps < MaxScaleWrites
    /\ scaleSteps' = scaleSteps + 1
    /\ writeCount' = writeCount + 1
    /\ LET r == Route(Async, writeCount + 1, contentionCount, totalLatency, lastLatency)
       IN  /\ SetPc(t, IF r = "async" THEN "sc_async" ELSE "sc_sync")
           /\ lastRoute' = r
    /\ UNCHANGED <<cfgVars, cellVars, fsVars, ringVars, envVars, local, calls>>
    /\ UNCHANGED <<contentionCount, totalLatency, lastLatency, droppedCount>>
    /\ UNCHANGED <<bgVars, unitVars>>

\* what a writeSync leaves in the metrics (lethe.go:762-772, 794-796): a
\* contention if it saw the rotation flag, and its latency
syncMetrics(contended, lat) ==
    /\ contentionCount' = contentionCount + (IF contended THEN 1 ELSE 0)
    /\ RecordLatency(lat)

\* a call routed to writeSync ends
ScaleSyncReturn(t) ==
    /\ pc[t] = "sc_sync"
    /\ \E contended \in BOOLEAN, lat \in Latencies : syncMetrics(contended, lat)
    /\ SetPc(t, "idle")
    /\ UNCHANGED <<cfgVars, cellVars, fsVars, ringVars, envVars, local, calls, scaleVars>>
    /\ UNCHANGED <<writeCount, droppedCount>>
    /\ UNCHANGED <<bgVars, unitVars>>

\* a call routed to writeAsync / writeAsyncOwned ends (lethe.go:819-868):
\* the push succeeded and the metrics are as they were, or the ring was full
\* and the contention counter moved before the policy dropped the payload
\* or fell back to writeSync
ScaleAsyncReturn(t) ==
    /\ pc[t] = "sc_async"
    /\ \E full \in BOOLEAN :
          IF ~full
          THEN UNCHANGED <<contentionCount, totalLatency, lastLatency, droppedCount>>
          ELSE IF BackpressurePolicy = "drop"
          THEN /\ contentionCount' = contentionCount + 1
               /\ droppedCount' = droppedCount + 1
               /\ UNCHANGED <<totalLatency, lastLatency>>
          ELSE /\ \E contended \in BOOLEAN, lat \in Latencies :
                     /\ contentionCount' = contentionCount + 1 + (IF contended THEN 1 ELSE 0)
                     /\ RecordLatency(lat)
               /\ UNCHANGED droppedCount
    /\ SetPc(t, "idle")
    /\ UNCHANGED <<cfgVars, cellVars, fsVars, ringVars, envVars, local, calls, scaleVars>>
    /\ UNCHANGED writeCount
    /\ UNCHANGED <<bgVars, unitVars>>

NextScale ==
    \/ \E t \in Producers : ScaleWrite(t)
    \/ \E t \in Producers : ScaleSyncReturn(t)
    \/ \E t \in Producers : ScaleAsyncReturn(t)

SpecScale == InitScale /\ [][NextScale]_vars

\* ---------------------------------------------------------------- background specification
\* The background pipeline of a logger in sync mode without rotation
\* thresholds: one goroutine calls Write and Rotate, one call after the
\* other, and the two workers of the pool run the tasks the rotations
\* schedule.  A call of p1 that does not wait is one
\* step; the steps of a rotation among concurrent writers are those of Spec.
\* MaxFileAge is a time.Duration: 0 disables the age sweep, 1 is the
\* shortest age, which a file a second old exceeds
BgConfigs ==
    [compress : BOOLEAN, checksum : BOOLEAN, backups : {0, 1}, fileAge : {0, 1}]

InitBg ==
    /\ UnitOff
    /\ Async = FALSE
    /\ BackpressurePolicy = "fallback"
    /\ maxSizeBytes = 0
    /\ MaxAge = 0
    /\ pathValid = TRUE
    /\ currentFile = NoFile
    /\ bytesWritten = 0
    /\ rotationSeq = 0
    /\ rotationFlag = FALSE
    /\ fileCreated = 0
    /\ initMutex = NoThread
    /\ files = <<>>
    /\ primary = NoFile
    /\ backups = [ts \in Timestamps |-> NoFile]
    /\ buffer = 0
    /\ rings = <<>>
    /\ consumer = 0
    /\ ctxDone = FALSE
    /\ writeCount = 0
    /\ contentionCount = 0
    /\ totalLatency = 0
    /\ lastLatency = 0
    /\ droppedCount = 0
    /\ now = 1
    /\ faults = 0
    /\ errors = {}
    /\ closeState = "open"
    /\ rotates = 0
    /\ pc = [t \in Threads |-> IF t = Cons THEN "c_off" ELSE "idle"]
    /\ local = [t \in Threads |-> NoLocal]
    /\ calls = <<>>
    /\ lastRoute = "none"
    /\ scaleSteps = 0
    /\ \E c \in BgConfigs :
          /\ Compress = c.compress
          /\ Checksum = c.checksum
          /\ MaxBackups = c.backups
          /\ MaxFileAge = c.fileAge
    /\ InitPool

\* a file as os.OpenFile creates it, with its modification time
NewFile == [content |-> <<>>, open |-> TRUE, mtime |-> now]

\* Write in sync mode, from the call to its return (lethe.go:596-609,
\* 755-817): the lazy initialization, the write on the loaded handle and
\* the rotation check, which no threshold of this specification satisfies
BgWrite(t) ==
    /\ t = "p1"
    /\ pc[t] = "idle"
    /\ closeResults = <<>>
    /\ bgSteps.writes < MaxBgWrites
    /\ bgSteps' = [bgSteps EXCEPT !.writes = @ + 1]
    /\ writeCount' = writeCount + 1
    /\ lastRoute' = Route(Async, writeCount + 1, contentionCount, totalLatency, lastLatency)
    /\ lastRoute' = "sync"
    /\ RecordLatency(0)
    /\ LET id == writeCount + 1
           fresh == currentFile = NoFile
           fs == IF fresh THEN Append(files, NewFile) ELSE files
           f == IF fresh THEN Len(files) + 1 ELSE currentFile
       IN  /\ currentFile' = f
           /\ primary' = IF fresh THEN f ELSE primary
           /\ fileCreated' = IF fresh THEN now ELSE fileCreated
           /\ IF fs[f].open
              THEN /\ files' = [fs EXCEPT ![f].content = @ \o Data(id), ![f].mtime = now]
                   /\ bytesWritten' = (IF fresh THEN 0 ELSE bytesWritten) + Len(Data(id))
                   /\ ~shouldRotate((IF fresh THEN 0 ELSE bytesWritten) + Len(Data(id)))
                   /\ calls' = Append(calls, [thread |-> t, res |-> "ok", aged |-> ageElapsed])
              ELSE /\ files' = fs
                   /\ bytesWritten' = bytesWritten
                   /\ calls' = Append(calls, [thread |-> t, res |-> "err", aged |-> ageElapsed])
    /\ UNCHANGED <<cfgVars, rotationSeq, rotationFlag, initMutex, backups, ringVars>>
    /\ UNCHANGED <<contentionCount, droppedCount, envVars, pc, local, scaleSteps>>
    /\ UNCHANGED <<unitVars, bgCfgVars, disk, poolVars, workerVars, closeResults, waitLeft>>

\* Rotate, from the call to its return (lethe.go:1304-1307, 1004-1015,
\* unnamed/part_003:374-391, 428-473): the CAS on the free flag, the close
\* of the handle, the rename onto the backup name of the current second,
\* the reopen and the store of the new handle, the state update,
\* scheduleBackgroundTasks, and the reset of the flag.  A failed rename
\* (or close) leaves the closed handle in the cell and nothing renamed; a
\* failed reopen leaves the closed handle in the cell and no primary file.
BgRotate(t, limit) ==
    /\ t = "p1"
    /\ pc[t] = "idle"
    /\ closeResults = <<>>
    /\ bgSteps.rotates < limit
    /\ bgSteps' = [bgSteps EXCEPT !.rotates = @ + 1]
    /\ claimRotation
    /\ \E fault \in {"none", "rename", "open"} :
          /\ fault # "none" => (IsOpen(currentFile) /\ faults < MaxFaults)
          /\ faults' = IF fault # "none" THEN faults + 1 ELSE faults
          /\ IF currentFile = NoFile
             THEN /\ errors' = errors \cup {"rotation"}
                  /\ UNCHANGED <<cellVars, files, primary, disk, poolVars, wpc>>
             ELSE IF ~IsOpen(currentFile) \/ fault = "rename"
             THEN /\ errors' = errors \cup {"rotation"}
                  /\ files' = [files EXCEPT ![currentFile].open = FALSE]
                  /\ UNCHANGED <<cellVars, primary, disk, poolVars, wpc>>
             ELSE IF fault = "open"
             THEN /\ errors' = errors \cup {"rotation"}
                  /\ files' = [files EXCEPT ![currentFile].open = FALSE]
                  /\ disk' = [disk EXCEPT ![Path(now, "")] =
                                 Entry(files[primary].content, files[primary].mtime)]
                  /\ primary' = NoFile
                  /\ UNCHANGED <<cellVars, poolVars, wpc>>
             ELSE /\ files' = Append([files EXCEPT ![currentFile].open = FALSE], NewFile)
                  /\ disk' = [disk EXCEPT ![Path(now, "")] =
                                 Entry(files[primary].content, files[primary].mtime)]
                  /\ primary' = Len(files) + 1
                  /\ currentFile' = Len(files) + 1
                  /\ updateRotationState
                  /\ scheduleBackgroundTasks(now)
                  /\ UNCHANGED <<rotationFlag, initMutex, errors>>
    /\ UNCHANGED <<cfgVars, backups, ringVars, metricVars, procVars, scaleVars>>
    /\ UNCHANGED <<now, closeState, rotates>>
    /\ UNCHANGED <<unitVars, bgCfgVars, wlocal, closeResults, waitLeft>>

\* the clock of the background specification advances by a second
BgTick ==
    /\ now < MaxBgClock
    /\ now' = now + 1
    /\ UNCHANGED <<cfgVars, cellVars, fsVars, ringVars, metricVars, procVars, scaleVars>>
    /\ UNCHANGED <<faults, errors, closeState, rotates, bgVars, unitVars>>

\* ---------------------------------------------------------------- workers
SetWpc(w, p) == wpc' = [wpc EXCEPT ![w] = p]

TaskOf(w) == tasks[wlocal[w].task]

\* worker, the select (unnamed/part_003:755-766): the context is done and
\* the worker returns, or it receives the task at the head of the queue.
\* The workers are interchangeable: of two waiting workers w1 receives.
worker(w) ==
    /\ wpc[w] = "w_wait"
    /\ \/ /\ bgCtxDone
          /\ SetWpc(w, "w_exit")
          /\ UNCHANGED <<taskQueue, tasks, wlocal>>
       \/ /\ taskQueue # <<>>
          /\ w = "w2" => wpc["w1"] # "w_wait"
          /\ taskQueue' = Tail(taskQueue)
          /\ tasks' = [tasks EXCEPT ![Head(taskQueue)].state = "taken"]
          /\ wlocal' = [wlocal EXCEPT ![w] = [NoWLocal EXCEPT !.task = Head(taskQueue),
                                                              !.ts = tasks[Head(taskQueue)].ts]]
          /\ SetWpc(w, "w_process")
    /\ UNCHANGED <<cfgVars, cellVars, fsVars, ringVars, metricVars, envVars, procVars, scaleVars>>
    /\ UNCHANGED <<unitVars, bgCfgVars, disk, bgWorkers, bgCtxDone, queueClosed, activeTasks>>
    /\ UNCHANGED <<closeResults, waitLeft, bgSteps>>

\* processTask counts the task as active and dispatches on its type
\* (unnamed/part_003:769-782)
processTask(w) ==
    /\ wpc[w] = "w_process"
    /\ activeTasks' = activeTasks + 1
    /\ tasks' = [tasks EXCEPT ![wlocal[w].task].state = "running"]
    /\ SetWpc(w, CASE TaskOf(w).type = "cleanup" -> "cu_glob"
                   [] TaskOf(w).type = "compress" -> "cp_open"
                   [] TaskOf(w).type = "checksum" -> "ck_stat")
    /\ UNCHANGED <<cfgVars, cellVars, fsVars, ringVars, metricVars, envVars, procVars, scaleVars>>
    /\ UNCHANGED <<unitVars, bgCfgVars, disk, bgWorkers, bgCtxDone, queueClosed, taskQueue, wlocal>>
    /\ UNCHANGED <<closeResults, waitLeft, bgSteps>>

\* processTask returns: the deferred activeTasks.Add(-1)
\* (unnamed/part_003:772), and the worker goes back to its select
taskDone(w) ==
    /\ wpc[w] = "w_end"
    /\ activeTasks' = activeTasks - 1
    /\ tasks' = [tasks EXCEPT ![wlocal[w].task].state = "done"]
    /\ wlocal' = [wlocal EXCEPT ![w] = NoWLocal]
    /\ SetWpc(w, "w_wait")
    /\ UNCHANGED <<cfgVars, cellVars, fsVars, ringVars, metricVars, envVars, procVars, scaleVars>>
    /\ UNCHANGED <<unitVars, bgCfgVars, disk, bgWorkers, bgCtxDone, queueClosed, taskQueue>>
    /\ UNCHANGED <<closeResults, waitLeft, bgSteps>>

\* a step of a task: the variables no task touches
taskFrame ==
    /\ UNCHANGED <<cfgVars, cellVars, fsVars, ringVars, metricVars, procVars, scaleVars>>
    /\ UNCHANGED <<now, closeState, rotates>>
    /\ UNCHANGED <<unitVars, bgCfgVars, poolVars, closeResults, waitLeft>>

\* ---------------------------------------------------------------- cleanup
\* cleanupOldFiles: filepath.Glob(Filename + ".*") and the read of the
\* clock (unnamed/part_003:550-563)
CleanupGlob(w) ==
    /\ wpc[w] = "cu_glob"
    /\ wlocal' = [wlocal EXCEPT ![w].matches = {p \in Paths : disk[p].exists},
                                ![w].at = now]
    /\ bgSteps' = [bgSteps EXCEPT !.swept = rotationSeq, !.sweptAt = now]
    /\ SetWpc(w, "cu_scan")
    /\ UNCHANGED <<disk, faults, errors>>
    /\ taskFrame

\* cleanupOldFiles, the loop over the matches (unnamed/part_003:565-587):
\* a match that os.Stat no longer finds is skipped, a match older than
\* MaxFileAge is removed, the others are listed with their modification
\* times; then the count check (unnamed/part_003:590-592)
CleanupScan(w) ==
    /\ wpc[w] = "cu_scan"
    /\ LET present == {p \in wlocal[w].matches : disk[p].exists}
           old == {p \in present :
                      MaxFileAge > 0 /\ (wlocal[w].at - disk[p].mtime) * Second > MaxFileAge}
           kept == present \ old
       IN  /\ disk' = [p \in Paths |-> IF p \in old THEN NoEntry ELSE disk[p]]
           /\ wlocal' = [wlocal EXCEPT ![w].kept = kept,
                                       ![w].mtimes = [p \in kept |-> disk[p].mtime]]
           /\ SetWpc(w, IF MaxBackups <= 0 \/ Cardinality(kept) <= MaxBackups
                        THEN "w_end" ELSE "cu_remove")
    /\ UNCHANGED <<faults, errors, bgSteps>>
    /\ taskFrame

\* cleanupOldFiles, the sort by modification time and the removal of the
\* oldest files beyond MaxBackups (unnamed/part_003:595-607); sort.Slice
\* orders files of equal modification time either way, and the removal of
\* a file that is gone reports count_cleanup
CleanupRemove(w) ==
    /\ wpc[w] = "cu_remove"
    /\ LET k == wlocal[w].kept
           mt == wlocal[w].mtimes
       IN  \E R \in SUBSET k :
              /\ Cardinality(R) = Cardinality(k) - MaxBackups
              /\ \A r \in R, q \in k \ R : mt[r] <= mt[q]
              /\ disk' = [p \in Paths |-> IF p \in R THEN NoEntry ELSE disk[p]]
              /\ errors' = IF \E r \in R : ~disk[r].exists
                           THEN errors \cup {"count_cleanup"} ELSE errors
    /\ SetWpc(w, "w_end")
    /\ UNCHANGED <<faults, wlocal, bgSteps>>
    /\ taskFrame

\* ---------------------------------------------------------------- compression
\* a step of compressFile fails: the injected failure is counted, the
\* error goes to the error sink and compressFile returns
compressFails(w, operation, fault) ==
    /\ fault => faults < MaxFaults
    /\ faults' = IF fault THEN faults + 1 ELSE faults
    /\ errors' = errors \cup {operation}
    /\ SetWpc(w, "w_end")

\* compressFile opens the source with retry (unnamed/part_003:613-624)
CompressOpen(w) ==
    /\ wpc[w] = "cp_open"
    /\ LET F == Path(wlocal[w].ts, "")
       IN  IF disk[F].exists
           THEN /\ wlocal' = [wlocal EXCEPT ![w].src = disk[F].content]
                /\ SetWpc(w, "cp_create")
                /\ UNCHANGED <<faults, errors>>
           ELSE /\ compressFails(w, "compress_open", FALSE)
                /\ UNCHANGED wlocal
    /\ UNCHANGED <<disk, bgSteps>>
    /\ taskFrame

\* os.Create(F.gz.tmp) (unnamed/part_003:627-636): the temporary file is
\* created empty, or the file of that name is truncated; target is the
\* open file
CompressCreate(w) ==
    /\ wpc[w] = "cp_create"
    /\ LET T == Path(wlocal[w].ts, ".gz.tmp")
           i == IF disk[T].exists THEN disk[T].ino ELSE wlocal[w].task
       IN  \E fault \in BOOLEAN :
              IF fault
              THEN /\ compressFails(w, "compress_create", TRUE)
                   /\ UNCHANGED <<disk, wlocal>>
              ELSE /\ disk' = [disk EXCEPT ![T] = [Entry(<<>>, now) EXCEPT !.ino = i]]
                   /\ wlocal' = [wlocal EXCEPT ![w].ino = i]
                   /\ SetWpc(w, "cp_copy")
                   /\ UNCHANGED <<faults, errors>>
    /\ UNCHANGED bgSteps
    /\ taskFrame

\* io.Copy through the gzip writer, gzWriter.Close and target.Close
\* (unnamed/part_003:639-664): the complete gzip of the source is in the
\* open file, under whichever name that file is linked now; on a failure
\* the file named F.gz.tmp is removed
CompressCopy(w) ==
    /\ wpc[w] = "cp_copy"
    /\ LET T == Path(wlocal[w].ts, ".gz.tmp")
           target == {p \in Paths : disk[p].exists /\ disk[p].ino = wlocal[w].ino}
       IN  \E fault \in BOOLEAN :
              IF fault
              THEN /\ compressFails(w, "compress_copy", TRUE)
                   /\ disk' = [disk EXCEPT ![T] = NoEntry]
              ELSE /\ disk' = [p \in Paths |->
                                 IF p \in target
                                 THEN [disk[p] EXCEPT !.content = gzip(wlocal[w].src),
                                                      !.mtime = now]
                                 ELSE disk[p]]
                   /\ SetWpc(w, "cp_rename")
                   /\ UNCHANGED <<faults, errors>>
    /\ UNCHANGED <<wlocal, bgSteps>>
    /\ taskFrame

\* os.Rename(F.gz.tmp, F.gz) (unnamed/part_003:668-673); on a failure the
\* temporary file is removed
CompressRename(w) ==
    /\ wpc[w] = "cp_rename"
    /\ LET T == Path(wlocal[w].ts, ".gz.tmp")
           G == Path(wlocal[w].ts, ".gz")
       IN  \E fault \in BOOLEAN :
              IF fault \/ ~disk[T].exists
              THEN /\ fault => disk[T].exists
                   /\ compressFails(w, "compress_rename", fault)
                   /\ disk' = [disk EXCEPT ![T] = NoEntry]
              ELSE /\ disk' = [disk EXCEPT ![G] = disk[T], ![T] = NoEntry]
                   /\ SetWpc(w, "cp_remove")
                   /\ UNCHANGED <<faults, errors>>
    /\ UNCHANGED <<wlocal, bgSteps>>
    /\ taskFrame

\* os.Remove(F) after the rename (unnamed/part_003:676-679); a failure is
\* reported as compress_cleanup
CompressRemove(w) ==
    /\ wpc[w] = "cp_remove"
    /\ LET F == Path(wlocal[w].ts, "")
       IN  \E fault \in BOOLEAN :
              IF fault \/ ~disk[F].exists
              THEN /\ fault => disk[F].exists
                   /\ compressFails(w, "compress_cleanup", fault)
                   /\ UNCHANGED disk
              ELSE /\ disk' = [disk EXCEPT ![F] = NoEntry]
                   /\ SetWpc(w, "w_end")
                   /\ UNCHANGED <<faults, errors>>
    /\ UNCHANGED <<wlocal, bgSteps>>
    /\ taskFrame

\* ---------------------------------------------------------------- checksum
\* generateChecksum chooses the file: F if os.Stat finds it, else F.gz
\* (unnamed/part_003:805-823)
ChecksumStat(w) ==
    /\ wpc[w] = "ck_stat"
    /\ LET F == Path(wlocal[w].ts, "")
           G == Path(wlocal[w].ts, ".gz")
       IN  IF disk[F].exists \/ disk[G].exists
           THEN /\ wlocal' = [wlocal EXCEPT ![w].target = IF disk[F].exists THEN "" ELSE ".gz"]
                /\ SetWpc(w, "ck_read")
                /\ UNCHANGED errors
           ELSE /\ errors' = errors \cup {"checksum_missing"}
                /\ SetWpc(w, "w_end")
                /\ UNCHANGED wlocal
    /\ UNCHANGED <<disk, faults, bgSteps>>
    /\ taskFrame

\* generateChecksum opens the chosen file and hashes it
\* (unnamed/part_003:826-841)
ChecksumRead(w) ==
    /\ wpc[w] = "ck_read"
    /\ LET X == Path(wlocal[w].ts, wlocal[w].target)
       IN  IF disk[X].exists
           THEN /\ wlocal' = [wlocal EXCEPT ![w].hash = sha256(disk[X].content)]
                /\ SetWpc(w, "ck_write")
                /\ UNCHANGED errors
           ELSE /\ errors' = errors \cup {"checksum_open"}
                /\ SetWpc(w, "w_end")
                /\ UNCHANGED wlocal
    /\ UNCHANGED <<disk, faults, bgSteps>>
    /\ taskFrame

\* the sidecar of a file: its name with .sha256 appended
Sidecar(ext) == IF ext = "" THEN ".sha256" ELSE ".gz.sha256"

\* generateChecksum writes the sidecar: the digest and the base name of
\* the file (unnamed/part_003:844-851)
ChecksumWrite(w) ==
    /\ wpc[w] = "ck_write"
    /\ disk' = [disk EXCEPT ![Path(wlocal[w].ts, Sidecar(wlocal[w].target))] =
                   Entry(<<wlocal[w].hash, wlocal[w].target>>, now)]
    /\ SetWpc(w, "w_end")
    /\ UNCHANGED <<wlocal, faults, errors, bgSteps>>
    /\ taskFrame

\* ---------------------------------------------------------------- wait and close
\* WaitForBackgroundTasks and waitForCompletion (lethe.go:1104-1108,
\* unnamed/part_003:794-799): without a pool the call returns at once, with
\* one it returns when it loads activeTasks = 0.  waitLeft records the
\* tasks submitted before the call that have not finished at its return.
WaitForBackgroundTasks(t) ==
    /\ t = "p1"
    /\ pc[t] = "idle"
    /\ closeResults = <<>>
    /\ bgSteps.waits < MaxBgWaits
    /\ bgWorkers => activeTasks = 0
    /\ bgSteps' = [bgSteps EXCEPT !.waits = @ + 1]
    /\ waitLeft' = {i \in 1..Len(tasks) : tasks[i].state \in {"queued", "taken", "running"}}
    /\ UNCHANGED <<cfgVars, cellVars, fsVars, ringVars, metricVars, envVars, procVars, scaleVars>>
    /\ UNCHANGED <<unitVars, bgCfgVars, disk, poolVars, workerVars, closeResults>>

\* Close (lethe.go:1070-1094).  The first call runs the function of
\* closeOnce: there is no consumer in sync mode, and workers.stop cancels
\* the context and closes the queue (unnamed/part_003:785-789).  A later
\* call finds closeOnce done and returns its own closeErr, which is nil.
BgClose(t) ==
    /\ t = "p1"
    /\ pc[t] = "idle"
    /\ Len(closeResults) < MaxBgCloses
    /\ consumer = 0
    /\ IF closeResults # <<>>
       THEN /\ closeResults' = Append(closeResults, "nil")
            /\ UNCHANGED <<bgCtxDone, queueClosed, bgSteps, pc>>
       ELSE IF bgWorkers
       THEN /\ bgCtxDone' = TRUE
            /\ queueClosed' = TRUE
            /\ bgSteps' = [bgSteps EXCEPT !.stops = @ + 1]
            /\ SetPc(t, "bg_stop")
            /\ UNCHANGED closeResults
       ELSE /\ SetPc(t, "bg_file")
            /\ UNCHANGED <<bgCtxDone, queueClosed, bgSteps, closeResults>>
    /\ UNCHANGED <<cfgVars, cellVars, fsVars, ringVars, metricVars, envVars, local, calls, scaleVars>>
    /\ UNCHANGED <<unitVars, bgCfgVars, disk, bgWorkers, taskQueue, tasks, activeTasks, workerVars, waitLeft>>

\* workers.stop waits for the workers (unnamed/part_003:790)
BgCloseWait(t) ==
    /\ pc[t] = "bg_stop"
    /\ \A w \in Workers : wpc[w] = "w_exit"
    /\ SetPc(t, "bg_file")
    /\ UNCHANGED <<cfgVars, cellVars, fsVars, ringVars, metricVars, envVars, local, calls, scaleVars>>
    /\ UNCHANGED <<bgVars, unitVars>>

\* Close closes the current file and returns closeErr (lethe.go:1088-1093):
\* file.Close returns an error on a handle that is already closed, or
\* when the close fails
BgCloseFile(t) ==
    /\ pc[t] = "bg_file"
    /\ \E fault \in BOOLEAN :
          /\ fault => (IsOpen(currentFile) /\ faults < MaxFaults)
          /\ faults' = IF fault THEN faults + 1 ELSE faults
          /\ IF currentFile = NoFile
             THEN /\ closeResults' = Append(closeResults, "nil")
                  /\ UNCHANGED <<files, bgSteps>>
             ELSE /\ closeResults' = Append(closeResults,
                        IF fault \/ ~IsOpen(currentFile) THEN "err" ELSE "nil")
                  /\ files' = [files EXCEPT ![currentFile].open = FALSE]
                  /\ bgSteps' = [bgSteps EXCEPT !.fileCloses = @ + 1]
    /\ closeState' = "closed"
    /\ SetPc(t, "idle")
    /\ UNCHANGED <<cfgVars, cellVars, primary, backups, ringVars, metricVars, scaleVars>>
    /\ UNCHANGED <<now, errors, rotates, local, calls>>
    /\ UNCHANGED <<unitVars, bgCfgVars, disk, poolVars, workerVars, waitLeft>>

NextBg ==
    \/ \E t \in Producers : BgWrite(t)
    \/ \E t \in Producers : BgRotate(t, MaxBgRotates)
    \/ BgTick
    \/ \E w \in Workers : worker(w)
    \/ \E w \in Workers : processTask(w)
    \/ \E w \in Workers : taskDone(w)
    \/ \E w \in Workers : CleanupGlob(w)
    \/ \E w \in Workers : CleanupScan(w)
    \/ \E w \in Workers : CleanupRemove(w)
    \/ \E w \in Workers : CompressOpen(w)
    \/ \E w \in Workers : CompressCreate(w)
    \/ \E w \in Workers : CompressCopy(w)
    \/ \E w \in Workers : CompressRename(w)
    \/ \E w \in Workers : CompressRemove(w)
    \/ \E w \in Workers : ChecksumStat(w)
    \/ \E w \in Workers : ChecksumRead(w)
    \/ \E w \in Workers : ChecksumWrite(w)

SpecBg == InitBg /\ [][NextBg]_vars

\* ---------------------------------------------------------------- pool specification
\* The life of the pool: the calls of the background specification with a
\* single rotation, and WaitForBackgroundTasks and Close among them.
NextPool ==
    \/ \E t \in Producers : BgWrite(t)
    \/ \E t \in Producers : BgRotate(t, MaxPoolRotates)
    \/ BgTick
    \/ \E w \in Workers : worker(w)
    \/ \E w \in Workers : processTask(w)
    \/ \E w \in Workers : taskDone(w)
    \/ \E w \in Workers : CleanupGlob(w)
    \/ \E w \in Workers : CleanupScan(w)
    \/ \E w \in Workers : CleanupRemove(w)
    \/ \E w \in Workers : CompressOpen(w)
    \/ \E w \in Workers : CompressCreate(w)
    \/ \E w \in Workers : CompressCopy(w)
    \/ \E w \in Workers : CompressRename(w)
    \/ \E w \in Workers : CompressRemove(w)
    \/ \E w \in Workers : ChecksumStat(w)
    \/ \E w \in Workers : ChecksumRead(w)
    \/ \E w \in Workers : ChecksumWrite(w)
    \/ \E t \in Producers : WaitForBackgroundTasks(t)
    \/ \E t \in Producers : BgClose(t)
    \/ \E t \in Producers : BgCloseWait(t)
    \/ \E t \in Producers : BgCloseFile(t)

SpecPool == InitBg /\ [][NextPool]_vars

\* ---------------------------------------------------------------- observations
\* a thread holds the rotation: from the CAS it won to its deferred Store
Rotating(t) == pc[t] \in {"rot_close", "rot_rename", "rot_open", "rot_update", "tr_exit"}

RECURSIVE BackupsFrom(_)
\* the rotated files on disk from timestamp ts on, in rotation order
BackupsFrom(ts) ==
    IF ts > MaxClock THEN <<>>
    ELSE (IF backups[ts] = NoFile THEN <<>> ELSE files[backups[ts]].content)
         \o BackupsFrom(ts + 1)

\* the rotated files in rotation order followed by the primary file
Concatenation ==
    BackupsFrom(1) \o (IF primary = NoFile THEN <<>> ELSE files[primary].content)

OnDisk(id) == \E i \in 1..Len(Concatenation) : Concatenation[i] = id

Position(id) == CHOOSE i \in 1..Len(Concatenation) : Concatenation[i] = id

Succeeded == {id \in 1..Len(calls) : calls[id].res = "ok"}

\* no payload is left in a slot of a ring
RingDrained == \A b \in 1..Len(rings) : \A i \in 0..(RingLen - 1) : rings[b].slots[i] = 0

\* all Write calls have returned and Close has returned
Quiescent == closeState = "closed"

\* ---------------------------------------------------------------- claims
\* C1: every handle a writer (writeSync, or the consumer's writeToFile)
\* loads from currentFile is an open file: no writer obtains a handle the
\* rotation has already closed.
C1_LoadedHandleIsOpen ==
    [][\A t \in Threads :
          (pc[t] \notin {"ws_write", "c_write"} /\ pc'[t] \in {"ws_write", "c_write"})
              => files[local'[t].file].open]_vars

\* C2: byte conservation.  With the fallback policy and one rotation, once
\* all writes and Close have returned, the bytes in the primary file plus
\* the rotated file are the payloads of the Write calls that returned
\* success: as many bytes as successful calls, and none of them missing
\* (checked where no file-system operation failed and the consumer has
\* taken every payload out of the ring).
C2_ByteConservation ==
    (Quiescent /\ BackpressurePolicy = "fallback" /\ rotationSeq = 1 /\ faults = 0
        /\ RingDrained)
        => /\ Len(Concatenation) = Cardinality(Succeeded)
           /\ \A id \in Succeeded : OnDisk(id)

\* C3: in async mode, the payload of every Write / WriteOwned call that
\* returned success before Close was invoked is in a log file when Close
\* returns.
C3_AcceptedPayloadFlushed ==
    (Quiescent /\ Async /\ BackpressurePolicy = "fallback" /\ pathValid /\ faults = 0)
        => \A id \in Succeeded : OnDisk(id)

\* C4: same-thread ordering.  Of two successful writes of one thread, the
\* bytes of the earlier one precede the bytes of the later one in the
\* rotated files in rotation order followed by the primary file (checked
\* where both payloads are in the files; their presence is C2 and C3).
C4_SameThreadOrder ==
    Quiescent =>
        \A i, j \in Succeeded :
            (i < j /\ calls[i].thread = calls[j].thread /\ OnDisk(i) /\ OnDisk(j))
                => Position(i) < Position(j)

\* C5: when the lazy initialization has failed for every call, so that no
\* file has been opened and no consumer is running when all calls have
\* returned, no Write / WriteOwned call has returned (len(data), nil)
\* (fallback policy: a drop is a success by design).
C5_NoSuccessWithoutFile ==
    (Quiescent /\ BackpressurePolicy = "fallback" /\ currentFile = NoFile /\ consumer = 0)
        => Succeeded = {}

\* C6: when a step of a rotation (close, rename or reopen) has failed, at
\* the exit of triggerRotation the failure is in the error sink, the
\* rotation flag is false and currentFile refers to an open file.
C6_FailedRotationKeepsFile ==
    [][\A t \in Threads :
          (pc[t] = "tr_exit" /\ pc'[t] # "tr_exit" /\ local[t].failed /\ local[t].file # NoFile)
              => /\ "rotation" \in errors'
                 /\ ~rotationFlag'
                 /\ files'[currentFile'].open]_vars

\* C7: rotation mutual exclusion.  At most one thread is inside
\* performRotation, and the rotation flag is true exactly while a thread
\* holds the rotation.
C7_RotationMutex ==
    /\ Cardinality({t \in Threads : Rotating(t)}) <= 1
    /\ rotationFlag <=> (\E t \in Threads : Rotating(t))

\* a thread attempts the CAS while another thread holds the rotation
C7_Witness ==
    \E t, u \in Threads : t # u /\ Rotating(t) /\ pc[u] = "tr_cas"

\* C8: every successful rotation renames the active file to a backup path
\* that did not exist before the rename.
C8_BackupPathIsFresh ==
    [][\A t \in Threads :
          (pc[t] = "rot_rename" /\ pc'[t] = "rot_open")
              => backups[local[t].backup] = NoFile]_vars

\* C9: rotationSeq never decreases; it increases by exactly 1 when a
\* rotation completes successfully and at no other step, so a failed
\* rotation and a triggerRotation that loses the CAS leave it unchanged.
C9_RotationSeqCounts ==
    [][/\ rotationSeq' \in {rotationSeq, rotationSeq + 1}
       /\ \A t \in Threads :
             (pc[t] = "rot_update" /\ pc'[t] = "tr_exit") => rotationSeq' = rotationSeq + 1
       /\ rotationSeq' # rotationSeq =>
             \E t \in Threads : pc[t] = "rot_update" /\ pc'[t] = "tr_exit" /\ ~local[t].failed
       /\ \A t \in Threads :
             (pc[t] = "tr_exit" /\ local[t].failed) => rotationSeq' = rotationSeq
       /\ \A t \in Threads :
             (pc[t] = "tr_cas" /\ rotationFlag /\ pc'[t] # "tr_cas") => rotationSeq' = rotationSeq]_vars

\* a rotation has completed, another one has failed, and a third call is
\* at the CAS while the flag is taken
C9_Witness ==
    /\ rotationSeq = 1
    /\ "rotation" \in errors
    /\ \E t, u \in Threads : t # u /\ Rotating(t) /\ pc[u] = "tr_cas"

\* C10 as stated: once a call has been routed to the async path, the next
\* call (and so every later call) is routed to the async path.
C10_ScalingIsOneWay ==
    [][(lastRoute = "async" /\ writeCount' # writeCount) => lastRoute' = "async"]_vars

\* C10 as amended: once a call has been routed to the async path while
\* contentionCount > 0 and writeCount > 1000, every later call is routed to
\* the async path.
C10_ScalingIsOneWayUnderContention ==
    [][(lastRoute = "async" /\ contentionCount > 0 /\ writeCount > 1000
            /\ writeCount' # writeCount)
         => lastRoute' = "async"]_vars

\* a call was routed async under contention with more than 1000 writes,
\* the latency conditions and the ratio condition are off, and a later call
\* has been routed
C10_Witness ==
    /\ lastRoute = "async"
    /\ contentionCount > 0
    /\ writeCount > 1002
    /\ lastLatency = 0
    /\ totalLatency \div writeCount <= 1000000
    /\ 10 * contentionCount <= writeCount

\* ---------------------------------------------------------------- observations of the background pipeline
\* the file of the rotation of second ts with the extension ext is on disk
OnBgDisk(ts, ext) == disk[Path(ts, ext)].exists

\* no worker holds a task and no task waits in the queue
PoolIdle == taskQueue = <<>> /\ \A w \in Workers : wpc[w] \in {"w_off", "w_wait", "w_exit"}

\* C11: for every rotated file F, F.gz exists and F does not, or F exists
\* and F.gz does not, or F.gz.tmp exists: F and a finalized F.gz never
\* exist together without F.gz.tmp.
C11_CompressionArtifacts ==
    \A ts \in BgTimestamps :
        (OnBgDisk(ts, "") \/ OnBgDisk(ts, ".gz"))
            => \/ OnBgDisk(ts, ".gz") /\ ~OnBgDisk(ts, "")
               \/ OnBgDisk(ts, "") /\ ~OnBgDisk(ts, ".gz")
               \/ OnBgDisk(ts, ".gz.tmp")

\* the operations compressFile reports to the error sink
CompressOps == {"compress_open", "compress_create", "compress_copy",
                "compress_rename", "compress_cleanup"}

\* worker w is in compressFile
Compressing(w) == wpc[w] \in {"cp_open", "cp_create", "cp_copy", "cp_rename", "cp_remove"}

\* a step in which compressFile removes its source
RemovesSource(w) ==
    /\ wpc[w] = "cp_remove"
    /\ OnBgDisk(wlocal[w].ts, "")
    /\ ~disk'[Path(wlocal[w].ts, "")].exists

\* a step in which compressFile returns on a failure
CompressionFails(w) == Compressing(w) /\ wpc'[w] = "w_end" /\ ~RemovesSource(w)

\* C12: a file named F.gz exists only if it holds a complete gzip stream;
\* compressFile removes F only when F.gz exists (retention, which deletes
\* files of any name, being off); and when a step of compressFile fails
\* the F.gz.tmp it opened is gone, the error is in the error sink and F is
\* as it was.
C12_CrashConsistency ==
    /\ [](\A ts \in BgTimestamps : OnBgDisk(ts, ".gz") => disk[Path(ts, ".gz")].content # <<>>)
    /\ [][\A w \in Workers :
            /\ (MaxBackups = 0 /\ RemovesSource(w)) => OnBgDisk(wlocal[w].ts, ".gz")
            /\ CompressionFails(w) =>
                  /\ \/ wlocal[w].ino = 0
                     \/ ~disk'[Path(wlocal[w].ts, ".gz.tmp")].exists
                     \/ disk'[Path(wlocal[w].ts, ".gz.tmp")].ino # wlocal[w].ino
                  /\ errors' \cap CompressOps # {}
                  /\ disk'[Path(wlocal[w].ts, "")] = disk[Path(wlocal[w].ts, "")]]_vars

\* every submitted task has finished: none waits, runs or was skipped
AllTasksDone == PoolIdle /\ \A i \in 1..Len(tasks) : tasks[i].state = "done"

\* no two rotations took the same backup name
DistinctBackupNames ==
    \A i, j \in 1..Len(tasks) :
        (i # j /\ tasks[i].type = tasks[j].type) => tasks[i].ts # tasks[j].ts

\* the sidecar of the artifact with extension ext of rotation ts exists,
\* and records the digest of that artifact
SidecarMatches(ts, ext) ==
    /\ OnBgDisk(ts, Sidecar(ext))
    /\ disk[Path(ts, Sidecar(ext))].content[1] = sha256(disk[Path(ts, ext)].content)

\* C13: with Checksum enabled, once the tasks of the rotations have all
\* finished (no failure injected, retention off, every rotation with a
\* backup name of its own), each surviving artifact F or F.gz has its
\* sidecar beside it, and every sidecar names an existing file whose
\* SHA-256 is the digest it records.
C13_ChecksumFidelity ==
    (Checksum /\ AllTasksDone /\ DistinctBackupNames /\ faults = 0 /\ MaxBackups = 0)
        => \A ts \in BgTimestamps :
              /\ \A ext \in {"", ".gz"} :
                    /\ OnBgDisk(ts, ext) => SidecarMatches(ts, ext)
                    /\ OnBgDisk(ts, Sidecar(ext)) => (OnBgDisk(ts, ext) /\ SidecarMatches(ts, ext))

\* the files matching Filename.*
Matching == {p \in Paths : disk[p].exists}

\* C14: with MaxBackups > 0, once all background tasks have finished (none
\* skipped, no failure injected), at most MaxBackups files matching
\* Filename.* remain; and every file the count sweep deletes is no younger
\* than every file it keeps.
C14_RetentionByCount ==
    /\ []((MaxBackups > 0 /\ AllTasksDone /\ faults = 0)
            => Cardinality(Matching) <= MaxBackups)
    /\ [][\A w \in Workers :
            (wpc[w] = "cu_remove" /\ wpc'[w] = "w_end") =>
                \A r \in Matching, q \in wlocal[w].kept \cap Matching :
                    (~disk'[r].exists /\ disk'[q].exists) => disk[r].mtime <= disk[q].mtime]_vars

\* C15: with MaxFileAge > 0 and any MaxBackups, once all background tasks
\* have finished (none skipped, no failure injected) a retention sweep has
\* listed the directory after the last successful rotation, and no file
\* older than MaxFileAge at that sweep remains.
C15_RetentionByAge ==
    (MaxFileAge > 0 /\ rotationSeq > 0 /\ AllTasksDone /\ faults = 0)
        => /\ bgSteps.swept = rotationSeq
           /\ \A p \in Matching : (bgSteps.sweptAt - disk[p].mtime) * Second <= MaxFileAge

\* C16: when WaitForBackgroundTasks returns, every task submitted before
\* the call has finished, whether it was running or still queued.
C16_WaitCoversSubmittedTasks == waitLeft = {}

\* Close has returned at least once
CloseReturned == closeResults # <<>>

\* C17: when Close returns, every background task enqueued before has been
\* executed by a worker: none is left in the task queue.
C17_CloseRunsEnqueuedTasks ==
    CloseReturned =>
        /\ taskQueue = <<>>
        /\ \A i \in 1..Len(tasks) : tasks[i].state \in {"done", "skipped"}

\* C18: Close called twice is Close called once: the pool is stopped once,
\* the file is closed once, and the second call returns what the first
\* call returned.
C18_CloseIdempotent ==
    /\ bgSteps.stops <= 1
    /\ bgSteps.fileCloses <= 1
    /\ Len(closeResults) = 2 => closeResults[2] = closeResults[1]

\* C19: with the drop policy, after quiescence (all writes returned, Close
\* returned; a valid path, no rotation and no failure injected) the
\* payloads in the files plus droppedCount number the Write calls that
\* returned success.
C19_DropAccounting ==
    (/\ Quiescent
     /\ \A t \in Producers : pc[t] = "idle"
     /\ Async
     /\ BackpressurePolicy = "drop"
     /\ pathValid
     /\ rotationSeq = 0
     /\ faults = 0)
        => Len(Concatenation) + droppedCount = Cardinality(Succeeded)

\* one rotation has happened, the one rotated file holds A alone and the
\* primary file holds B
AgeBoundaryOutcome ==
    /\ rotationSeq = 1
    /\ Cardinality({ts \in Timestamps : backups[ts] # NoFile}) = 1
    /\ \A ts \in Timestamps : backups[ts] # NoFile => files[backups[ts]].content = <<1>>
    /\ primary # NoFile
    /\ files[primary].content = <<2>>

\* C20: in sync mode with an age threshold only, when payload A is written
\* (call 1, on a file within its age), the age threshold then elapses, and
\* payload B is written (call 2, begun with the threshold elapsed), with no
\* Rotate call and no failure: exactly one rotation has happened, the
\* rotated file contains A and not B, and the primary file contains B.
C20_AgeRotationBoundary ==
    (/\ ~Async /\ maxSizeBytes = 0 /\ MaxAge > 0 /\ pathValid
     /\ rotates = 0 /\ faults = 0
     /\ calls = <<[thread |-> "p1", res |-> "ok", aged |-> FALSE],
                  [thread |-> "p1", res |-> "ok", aged |-> TRUE]>>)
        => AgeBoundaryOutcome

\* C21: a Rotate call made while another rotation is in progress does not
\* return until that rotation has completed.
C21_RotateWaitsForRotation ==
    [][\A t \in Producers :
          (pc[t] = "tr_cas" /\ local[t].data = 0 /\ pc'[t] = "idle")
              => ~\E u \in Threads \ {t} : Rotating(u)]_vars

\* ---------------------------------------------------------------- construction specification
\* NewWithConfig, the first initFile and shouldRotate, as functions of the
\* configuration and of the clock.  Strings that the code parses are
\* sequences of one-character strings; durations and instants are in
\* nanoseconds, as time.Duration and UnixNano are.
Digits == {"0", "1", "2", "3", "4", "5", "6", "7", "8", "9"}

DigitVal(c) ==
    CASE c = "0" -> 0 [] c = "1" -> 1 [] c = "2" -> 2 [] c = "3" -> 3
      [] c = "4" -> 4 [] c = "5" -> 5 [] c = "6" -> 6 [] c = "7" -> 7
      [] c = "8" -> 8 [] c = "9" -> 9

\* the number of leading decimal digits of s
RECURSIVE DigitPrefix(_)
DigitPrefix(s) ==
    IF s # <<>> /\ Head(s) \in Digits THEN 1 + DigitPrefix(Tail(s)) ELSE 0

\* the value of a string of decimal digits
RECURSIVE Decimal(_)
Decimal(s) ==
    IF s = <<>> THEN 0
    ELSE Decimal(SubSeq(s, 1, Len(s) - 1)) * 10 + DigitVal(s[Len(s)])

ParseOk(v) == [ok |-> TRUE, val |-> v]
ParseErr == [ok |-> FALSE, val |-> 0]

\* strconv.ParseInt(s, 10, 64): an optional sign and at least one digit
ParseInt(s) ==
    LET signed == s # <<>> /\ Head(s) \in {"+", "-"}
        body == IF signed THEN Tail(s) ELSE s
    IN  IF body = <<>> \/ DigitPrefix(body) # Len(body) THEN ParseErr
        ELSE IF signed /\ Head(s) = "-" THEN ParseOk(0 - Decimal(body))
        ELSE ParseOk(Decimal(body))

\* strings.HasSuffix
HasSuffix(s, suffix) ==
    /\ Len(s) >= Len(suffix)
    /\ SubSeq(s, Len(s) - Len(suffix) + 1, Len(s)) = suffix

\* s[:len(s)-n]
DropLast(s, n) == SubSeq(s, 1, Len(s) - n)

UpperOf(c) ==
    CASE c = "k" -> "K" [] c = "m" -> "M" [] c = "g" -> "G" [] c = "t" -> "T"
      [] c = "b" -> "B" [] c = "x" -> "X" [] OTHER -> c

LowerOf(c) ==
    CASE c = "D" -> "d" [] c = "W" -> "w" [] c = "Y" -> "y" [] c = "X" -> "x"
      [] OTHER -> c

\* strings.ToUpper, strings.ToLower, on the letters of the inputs
ToUpper(s) == [i \in 1..Len(s) |-> UpperOf(s[i])]
ToLower(s) == [i \in 1..Len(s) |-> LowerOf(s[i])]

\* ParseSize (unnamed/part_003:22-82)
ParseSize(str) ==
    IF str = <<>> THEN ParseErr
    ELSE IF ParseInt(str).ok THEN ParseInt(str)
    ELSE LET s == ToUpper(str)
             two == \E u \in {"K", "M", "G", "T"} : HasSuffix(s, <<u, "B">>)
             one == \E u \in {"K", "M", "G", "T"} : HasSuffix(s, <<u>>)
             unit == IF two THEN s[Len(s) - 1] ELSE s[Len(s)]
             multiplier == CASE unit = "K" -> 1024
                              [] unit = "M" -> 1024 * 1024
                              [] unit = "G" -> 1024 * 1024 * 1024
                              [] unit = "T" -> 1024 * 1024 * 1024 * 1024
             numStr == IF two THEN DropLast(s, 2) ELSE DropLast(s, 1)
         IN  IF ~two /\ ~one THEN ParseErr
             ELSE IF ~ParseInt(numStr).ok THEN ParseErr
             ELSE IF ParseInt(numStr).val * multiplier < 0 THEN ParseErr
             ELSE ParseOk(ParseInt(numStr).val * multiplier)

\* time.ParseDuration of the Go library, on strings of one number and one
\* unit: "0", or [sign] digits followed by ns, us, ms or s
GoParseDuration(s) ==
    LET signed == s # <<>> /\ Head(s) \in {"+", "-"}
        body == IF signed THEN Tail(s) ELSE s
        n == DigitPrefix(body)
        unit == SubSeq(body, n + 1, Len(body))
        scale == CASE unit = <<"n", "s">> -> 1
                   [] unit = <<"u", "s">> -> 1000
                   [] unit = <<"m", "s">> -> 1000000
                   [] unit = <<"s">> -> Second
        d == Decimal(SubSeq(body, 1, n)) * scale
    IN  IF body = <<"0">> THEN ParseOk(0)
        ELSE IF n = 0 THEN ParseErr
        ELSE IF unit \notin {<<"n", "s">>, <<"u", "s">>, <<"m", "s">>, <<"s">>} THEN ParseErr
        ELSE IF signed /\ Head(s) = "-" THEN ParseOk(0 - d)
        ELSE ParseOk(d)

\* ParseDuration (unnamed/part_003:86-121): the Go durations, then the
\* suffixes d, w and y
ParseDuration(str) ==
    IF str = <<>> THEN ParseErr
    ELSE IF GoParseDuration(str).ok THEN GoParseDuration(str)
    ELSE LET s == ToLower(str)
             unit == s[Len(s)]
             multiplier == CASE unit = "d" -> 24 * 3600 * Second
                              [] unit = "w" -> 7 * 24 * 3600 * Second
                              [] unit = "y" -> 365 * 24 * 3600 * Second
             numStr == DropLast(s, 1)
         IN  IF unit \notin {"d", "w", "y"} THEN ParseErr
             ELSE IF ~ParseInt(numStr).ok THEN ParseErr
             ELSE ParseOk(ParseInt(numStr).val * multiplier)

\* time.Millisecond
Millisecond == 1000000

\* the configurations handed to NewWithConfig: a nil pointer, or a
\* LoggerConfig with each field unset (zero) or set
SizeStrings == {<<>>, <<"1", "K", "B">>, <<"1", "X", "B">>}
AgeStrings == {<<>>, <<"1", "s">>, <<"1", "x">>}
ConfigInputs ==
    [Filename : {"", "app.log"},
     MaxSize : {0, 1},
     MaxSizeStr : SizeStrings,
     MaxAge : {0, Second},
     MaxAgeStr : AgeStrings,
     MaxBackups : {0, 3},
     BackpressurePolicy : {"", "adaptive"},
     FileMode : {0, 384},
     RetryCount : {0, 5},
     RetryDelay : {0, 20 * Millisecond},
     BufferSize : {0, 4096},
     FlushInterval : {0, 5 * Millisecond}]

\* the sizes shouldRotate is asked about, in bytes
SizeInputs == {0, 1024, 1024 * 1024}

\* the clock advances by half seconds up to MaxWall
HalfSecond == Second \div 2
MaxWall == 2 * Second

\* NewWithConfig (lethe.go:448-511): the returned pair
NewWithConfig(c) ==
    IF c = NilConfig
    THEN [logger |-> NilLogger, err |-> "config cannot be nil"]
    ELSE IF c.Filename = ""
    THEN [logger |-> NilLogger, err |-> "filename cannot be empty"]
    ELSE LET l == [Filename |-> c.Filename,
                   MaxSize |-> c.MaxSize,
                   MaxBackups |-> c.MaxBackups,
                   MaxAge |-> c.MaxAge,
                   MaxSizeStr |-> c.MaxSizeStr,
                   MaxAgeStr |-> c.MaxAgeStr,
                   BackpressurePolicy |->
                       IF c.BackpressurePolicy = "" THEN "fallback"
                       ELSE c.BackpressurePolicy,
                   FileMode |-> 420,
                   RetryCount |-> 3,
                   RetryDelay |-> 10 * Millisecond,
                   BufferSize |-> 1024,
                   FlushInterval |-> 1 * Millisecond,
                   maxSizeBytes |-> 0,
                   fileCreated |-> 0]
         IN  IF l.MaxAge > 0 /\ l.MaxAgeStr # <<>>
             THEN [logger |-> NilLogger,
                   err |-> "cannot specify both MaxAge and MaxAgeStr"]
             ELSE IF l.MaxAgeStr # <<>> /\ ~ParseDuration(l.MaxAgeStr).ok
             THEN [logger |-> NilLogger, err |-> "invalid MaxAgeStr"]
             ELSE IF l.MaxAgeStr # <<>>
             THEN [logger |-> [l EXCEPT !.MaxAge = ParseDuration(l.MaxAgeStr).val],
                   err |-> ""]
             ELSE [logger |-> l, err |-> ""]

\* initSizeConfig (unnamed/part_003:275-291) and the head of shouldRotate
\* (lethe.go:951-962): maxSizeBytes once the size configuration is resolved
resolvedSize(l) ==
    IF l.maxSizeBytes # 0 THEN l.maxSizeBytes
    ELSE IF l.MaxSizeStr # <<>>
    THEN IF ParseSize(l.MaxSizeStr).ok THEN ParseSize(l.MaxSizeStr).val ELSE 0
    ELSE IF l.MaxSize > 0 THEN l.MaxSize * 1024 * 1024
    ELSE 0

\* the local maxAge of shouldRotate (lethe.go:969-978)
resolvedAge(l) ==
    IF l.MaxAgeStr # <<>>
    THEN IF ParseDuration(l.MaxAgeStr).ok THEN ParseDuration(l.MaxAgeStr).val ELSE 0
    ELSE IF l.MaxAge > 0 THEN l.MaxAge
    ELSE 0

\* shouldRotate (lethe.go:950-992) of logger l, asked at instant at
shouldRotateAt(l, currentSize, at) ==
    \/ (resolvedSize(l) > 0 /\ currentSize >= resolvedSize(l))
    \/ /\ resolvedAge(l) > 0
       /\ l.fileCreated > 0
       /\ at - l.fileCreated * Second >= resolvedAge(l)

\* the variables the construction specification leaves alone
ctorFrame == <<progVars, sizeVars, ringRunVars, retryVars>>

InitCtor ==
    /\ InitProgram
    /\ ~Async /\ BackpressurePolicy = "fallback" /\ maxSizeBytes = 1 /\ pathValid
    /\ SizeOff
    /\ RingOff
    /\ RetryOff
    /\ config \in ConfigInputs \cup {NilConfig}
    /\ ctorPc = "start"
    /\ logger = NilLogger
    /\ newErr = ""
    /\ wall \in {Second, Second + HalfSecond}
    /\ opened = 0
    /\ verdict = [called |-> FALSE]

\* the caller calls NewWithConfig(config) and keeps what it returns
CallNewWithConfig ==
    /\ ctorPc = "start"
    /\ logger' = NewWithConfig(config).logger
    /\ newErr' = NewWithConfig(config).err
    /\ ctorPc' = "returned"
    /\ UNCHANGED <<config, wall, opened, verdict>>
    /\ UNCHANGED ctorFrame

\* the first write calls initFile (unnamed/part_003:253-272): initSizeConfig
\* resolves maxSizeBytes, the file is opened, and initFileState stores the
\* whole seconds of the clock in fileCreated (unnamed/part_003:364-368)
CallInitFile ==
    /\ ctorPc = "returned"
    /\ logger # NilLogger
    /\ logger' = [logger EXCEPT !.maxSizeBytes = resolvedSize(logger),
                                !.fileCreated = wall \div Second]
    /\ opened' = wall
    /\ ctorPc' = "open"
    /\ UNCHANGED <<config, newErr, wall, verdict>>
    /\ UNCHANGED ctorFrame

\* time passes
WallTick ==
    /\ wall < MaxWall
    /\ wall' = wall + HalfSecond
    /\ UNCHANGED <<config, ctorPc, logger, newErr, opened, verdict>>
    /\ UNCHANGED ctorFrame

\* a write path asks shouldRotate(currentSize) (lethe.go:950-992)
CallShouldRotate(currentSize) ==
    /\ ctorPc = "open"
    /\ logger' = [logger EXCEPT !.maxSizeBytes = resolvedSize(logger)]
    /\ verdict' = [called |-> TRUE, size |-> currentSize, at |-> wall,
                   res |-> shouldRotateAt(logger, currentSize, wall)]
    /\ UNCHANGED <<config, ctorPc, newErr, wall, opened>>
    /\ UNCHANGED ctorFrame

NextCtor ==
    \/ CallNewWithConfig
    \/ CallInitFile
    \/ WallTick
    \/ \E currentSize \in SizeInputs : CallShouldRotate(currentSize)

SpecCtor == InitCtor /\ [][NextCtor]_vars

\* C22: shouldRotate(size) is true if and only if the size threshold is
\* positive and size has reached it, or the age threshold is positive and
\* the time since the instant the file was created has reached it.
C22_RotationTrigger ==
    verdict.called =>
        (verdict.res <=>
            \/ (logger.maxSizeBytes > 0 /\ verdict.size >= logger.maxSizeBytes)
            \/ (resolvedAge(logger) > 0 /\ verdict.at - opened >= resolvedAge(logger)))

\* the configuration errors: a nil config, an empty filename, both MaxAge
\* and MaxAgeStr set, an unparseable MaxAgeStr, an unparseable MaxSizeStr
ConfigurationError(c) ==
    \/ c = NilConfig
    \/ c.Filename = ""
    \/ (c.MaxAge > 0 /\ c.MaxAgeStr # <<>>)
    \/ (c.MaxAgeStr # <<>> /\ ~ParseDuration(c.MaxAgeStr).ok)
    \/ (c.MaxSizeStr # <<>> /\ ~ParseSize(c.MaxSizeStr).ok)

\* C24: for each configuration error, NewWithConfig returns a nil Logger
\* and a non-nil error.
C24_ConstructorValidation ==
    (ctorPc # "start" /\ ConfigurationError(config))
        => (logger = NilLogger /\ newErr # "")

\* the LoggerConfig fields that have a Logger field of the same name
ConfigFields ==
    {"Filename", "MaxSize", "MaxSizeStr", "MaxAgeStr", "MaxBackups",
     "BackpressurePolicy", "FileMode", "RetryCount", "RetryDelay",
     "BufferSize", "FlushInterval"}

\* the zero value of a field of LoggerConfig
ZeroOf(f) ==
    CASE f \in {"Filename", "BackpressurePolicy"} -> ""
      [] f \in {"MaxSizeStr", "MaxAgeStr"} -> <<>>
      [] OTHER -> 0

\* C25: every LoggerConfig field the caller set to a non-zero value is the
\* value of the same field of the Logger that NewWithConfig returns.
C25_ConfiguredFieldsApplied ==
    (ctorPc # "start" /\ logger # NilLogger)
        => \A f \in ConfigFields :
              config[f] # ZeroOf(f) => logger[f] = config[f]

\* ---------------------------------------------------------------- ring sizing specification
\* The lengths of the rings that initMPSC and tryAdaptiveResize install, as
\* functions of BufferSize.  A ring is its length and its mask here.

\* the number of binary digits of x
RECURSIVE BitLen(_)
BitLen(x) == IF x = 0 THEN 0 ELSE 1 + BitLen(x \div 2)

\* bits.LeadingZeros64
LeadingZeros64(x) == 64 - BitLen(x)

\* nextPow2 that does not round
nextPow2Unrounded(x) == x

\* nextPow2 (unnamed/part_001:85-90)
nextPow2(x) == IF x <= 1 THEN 1 ELSE 2 ^ (64 - LeadingZeros64(x - 1))

\* newRingBuffer (unnamed/part_001:93-106): the length and the mask of the
\* ring it returns
ringOfSize(size) ==
    LET atLeast == IF size < 64 THEN 64 ELSE size
    IN  [size |-> nextPow2(atLeast), mask |-> nextPow2(atLeast) - 1]

\* the values of Logger.BufferSize
BufferSizes ==
    {0 - 1, 0, 1, 2, 63, 64, 65, 100, 127, 128, 129, 1000, 1024, 1025, 4096,
     5000, 8191, 8192, 8193, 10000, 16383, 16384, 16385, 20000, 32768, 40000}

InitSize ==
    /\ InitProgram
    /\ Async /\ BackpressurePolicy = "fallback" /\ maxSizeBytes = 1 /\ pathValid
    /\ CtorOff
    /\ RingOff
    /\ RetryOff
    /\ BufferSize \in BufferSizes
    /\ installed = <<>>
    /\ resizing = [t \in Producers |-> 0]

\* the variables the ring sizing specification leaves alone
sizeFrame == <<progVars, ctorVars, ringRunVars, retryVars>>

\* initMPSC (lethe.go:871-888): the ring of the configured size, installed
\* by the CAS from nil
SizeInitMPSC(t) ==
    /\ installed = <<>>
    /\ LET bufferSize == IF BufferSize <= 0 THEN 1024 ELSE BufferSize
       IN  installed' = <<ringOfSize(bufferSize)>>
    /\ UNCHANGED <<BufferSize, resizing>>
    /\ UNCHANGED sizeFrame

\* writeAsync loads Logger.buffer, its push finds the ring full and the
\* adaptive policy calls tryAdaptiveResize on that ring (lethe.go:828,
\* 853-855)
SizeLoadBuffer(t) ==
    /\ installed # <<>>
    /\ resizing[t] = 0
    /\ resizing' = [resizing EXCEPT ![t] = Len(installed)]
    /\ UNCHANGED <<BufferSize, installed>>
    /\ UNCHANGED sizeFrame

\* tryAdaptiveResize (lethe.go:912-947): nothing at the maximum size; else a
\* ring of twice the length, capped, installed if the CAS still finds the
\* ring the caller holds
tryAdaptiveResize(t) ==
    LET currentSize == installed[resizing[t]].size
        maxSize == 16384
        newSize == IF currentSize * 2 > maxSize THEN maxSize ELSE currentSize * 2
    IN  IF currentSize >= maxSize THEN UNCHANGED installed
        ELSE IF resizing[t] = Len(installed)
        THEN installed' = Append(installed, ringOfSize(newSize))
        ELSE UNCHANGED installed

SizeResize(t) ==
    /\ resizing[t] # 0
    /\ tryAdaptiveResize(t)
    /\ resizing' = [resizing EXCEPT ![t] = 0]
    /\ UNCHANGED BufferSize
    /\ UNCHANGED sizeFrame

NextSize ==
    \/ \E t \in Producers : SizeInitMPSC(t)
    \/ \E t \in Producers : SizeLoadBuffer(t)
    \/ \E t \in Producers : SizeResize(t)

SpecSize == InitSize /\ [][NextSize]_vars

\* the powers of two up to 2^20
PowersOfTwo == {2 ^ k : k \in 0..20}

\* the capacity initMPSC asks for: BufferSize, or 1024 when it is not set
RequestedCapacity == IF BufferSize <= 0 THEN 1024 ELSE BufferSize

\* the least power of two that is at least n
LeastPowerOfTwo(n) ==
    CHOOSE p \in PowersOfTwo :
        p >= n /\ \A q \in PowersOfTwo : q >= n => p <= q

Max(a, b) == IF a >= b THEN a ELSE b
Min(a, b) == IF a <= b THEN a ELSE b

\* C23: every installed ring has a length that is a power of two, at least
\* 64, and the mask length - 1; the first ring has length
\* max(64, least power of two >= requested capacity); every later ring was
\* installed over a ring shorter than 16384 and has length
\* min(2 * that length, 16384).
C23_RingLength ==
    /\ \A i \in 1..Len(installed) :
          /\ installed[i].size \in PowersOfTwo
          /\ installed[i].size >= 64
          /\ installed[i].mask = installed[i].size - 1
    /\ installed # <<>> =>
          installed[1].size = Max(64, LeastPowerOfTwo(RequestedCapacity))
    /\ \A i \in 2..Len(installed) :
          /\ installed[i - 1].size < 16384
          /\ installed[i].size = Min(2 * installed[i - 1].size, 16384)

\* a BufferSize that is no power of two was rounded up, and a resize has
\* installed a ring of the maximum length
C23_Witness ==
    /\ BufferSize > 64
    /\ BufferSize \notin PowersOfTwo
    /\ Len(installed) >= 2
    /\ installed[Len(installed)].size = 16384
    /\ \A t \in Producers : resizing[t] = 0

\* ---------------------------------------------------------------- ring specification
\* writeAsync, push, pop, the consumer's flushAll and tryAdaptiveResize in
\* steps of one access to shared memory each.  The ring is installed and
\* its consumer started (initMPSC has run); the sync path and the
\* consumer's file write are each one step; another goroutine may hold the
\* rotation flag throughout.  The
\* lengths are small: the first ring has RingLen slots, and
\* tryAdaptiveResize doubles up to 2^MaxRingBits slots, in place of 16384.

\* the calls of Write made in all
MaxRingWrites == 3
\* the binary logarithm of the maximum ring length
MaxRingBits == 1

MaxRingLen == 2 ^ MaxRingBits

\* the values of Logger.BackpressurePolicy
Policies == {"", "fallback", "drop", "adaptive"}

\* the ringBuffer struct (unnamed/part_001:77-82) of a given length
ringBuffer(size) ==
    [slots |-> [i \in 0..(size - 1) |-> 0], mask |-> size - 1, head |-> 0, tail |-> 0]

\* len(rb.buffer)
RingSize(r) == r.mask + 1

\* n & rb.mask
Masked(r, n) == n % (r.mask + 1)

\* the bytes of payload id: id bytes, so that payloads differ in length
Bytes(id) == [i \in 1..id |-> id]

\* the ring a thread pops from: the consumer its own (MPSCConsumer.buffer),
\* a producer the ring it drains in tryAdaptiveResize
RingOf(q) == IF q = Cons THEN consumer ELSE rl[q].buf

\* the positions of a producer goroutine that is not inside Write: in no
\* call, in Close, in Stats
OutsideWrite == {"idle", "close_wait", "stats_tail", "stats_done"}

\* the calls of Write begun so far
Started == Len(results) + Cardinality({t \in Producers : rpc[t] \notin OutsideWrite})

ringFrame ==
    <<cfgVars, cellVars, fsVars, consumer, ctxDone, writeCount, totalLatency,
      lastLatency, envVars, procVars, scaleVars, bgVars, ctorVars, sizeVars,
      retryVars>>

InitRing ==
    /\ Async = TRUE
    /\ BackpressurePolicy \in Policies
    /\ maxSizeBytes = 0
    /\ MaxAge = 0
    /\ pathValid = TRUE
    /\ currentFile = NoFile
    /\ bytesWritten = 0
    /\ rotationSeq = 0
    /\ rotationFlag \in BOOLEAN
    /\ fileCreated = 0
    /\ initMutex = NoThread
    /\ files = <<>>
    /\ primary = NoFile
    /\ backups = [ts \in Timestamps |-> NoFile]
    /\ buffer = 1
    /\ rings = <<ringBuffer(RingLen)>>
    /\ consumer = 1
    /\ ctxDone = FALSE
    /\ writeCount = 0
    /\ contentionCount = 0
    /\ totalLatency = 0
    /\ lastLatency = 0
    /\ droppedCount = 0
    /\ now = 1
    /\ faults = 0
    /\ errors = {}
    /\ closeState = "open"
    /\ rotates = 0
    /\ pc = [t \in Threads |-> IF t = Cons THEN "c_off" ELSE "idle"]
    /\ local = [t \in Threads |-> NoLocal]
    /\ calls = <<>>
    /\ lastRoute = "none"
    /\ scaleSteps = 0
    /\ BgOff
    /\ CtorOff
    /\ SizeOff
    /\ RetryOff
    /\ rpc = [t \in Threads |-> IF t = Cons THEN "wait" ELSE "idle"]
    /\ rl = [t \in Threads |-> NoRl]
    /\ accepted = {}
    /\ reservedAt = <<(<<>>)>>
    /\ poppedLog = <<>>
    /\ results = <<>>
    /\ written = <<>>

Go(t, p) == rpc' = [rpc EXCEPT ![t] = p]

\* writeAsync returns (n, err) to the caller of Write
WriteReturns(t, n, err, event) ==
    /\ results' = Append(results, [id |-> rl[t].id, by |-> t, n |-> n, err |-> err,
                                   events |-> Append(rl[t].events, event)])
    /\ Go(t, "idle")
    /\ rl' = [rl EXCEPT ![t] = NoRl]

\* writeAsync (lethe.go:819-828): the ring pointer is loaded
WriteAsync(t) ==
    /\ rpc[t] = "idle"
    /\ Started < MaxRingWrites
    /\ rl' = [rl EXCEPT ![t] = [NoRl EXCEPT !.id = Started + 1, !.buf = buffer,
                                            !.attempt = 1]]
    /\ Go(t, "push_tail")
    /\ UNCHANGED <<buffer, rings, contentionCount, droppedCount>>
    /\ UNCHANGED <<accepted, reservedAt, poppedLog, results, written>>
    /\ UNCHANGED ringFrame

\* push / pushOwned: tail := rb.tail.Load() (unnamed/part_001:125, 158)
PushLoadTail(t) ==
    /\ rpc[t] = "push_tail"
    /\ rl' = [rl EXCEPT ![t].tail = rings[rl[t].buf].tail]
    /\ Go(t, "push_head")
    /\ UNCHANGED <<buffer, rings, contentionCount, droppedCount>>
    /\ UNCHANGED <<accepted, reservedAt, poppedLog, results, written>>
    /\ UNCHANGED ringFrame

\* the full test of push without its comparison: never full
pushNeverFull(tail, head, size) == FALSE

\* the full test of push, tail-head >= size in uint64 (unnamed/part_001:130):
\* a tail loaded before head has moved past it wraps to a large number
pushSeesFull(tail, head, size) == tail < head \/ tail - head >= size

\* push / pushOwned: head := rb.head.Load() and the full test
\* (unnamed/part_001:126-132); a failed first push goes to the backpressure
\* switch, a failed push after a resize to writeSync (lethe.go:857-862)
PushLoadHead(t) ==
    /\ rpc[t] = "push_head"
    /\ LET r == rings[rl[t].buf]
       IN  IF pushSeesFull(rl[t].tail, r.head, RingSize(r))
           THEN /\ Go(t, IF rl[t].attempt = 1 THEN "contention" ELSE "sync")
                /\ UNCHANGED rl
           ELSE /\ rl' = [rl EXCEPT ![t].head = r.head]
                /\ Go(t, "push_cas")
    /\ UNCHANGED <<buffer, rings, contentionCount, droppedCount>>
    /\ UNCHANGED <<accepted, reservedAt, poppedLog, results, written>>
    /\ UNCHANGED ringFrame

\* push / pushOwned: rb.tail.CompareAndSwap(tail, tail+1)
\* (unnamed/part_001:135, 168); a failed CAS retries the loop
PushCAS(t) ==
    /\ rpc[t] = "push_cas"
    /\ IF rings[rl[t].buf].tail = rl[t].tail
       THEN /\ rings' = [rings EXCEPT ![rl[t].buf].tail = @ + 1]
            /\ reservedAt' = [reservedAt EXCEPT ![rl[t].buf] = Append(@, rl[t].id)]
            /\ Go(t, "push_store")
       ELSE /\ Go(t, "push_tail")
            /\ UNCHANGED <<rings, reservedAt>>
    /\ UNCHANGED <<buffer, contentionCount, droppedCount>>
    /\ UNCHANGED <<rl, accepted, poppedLog, results, written>>
    /\ UNCHANGED ringFrame

\* push / pushOwned: rb.buffer[tail&rb.mask].Store and return true
\* (unnamed/part_001:141-146, 170-171); writeAsync returns (len(data), nil)
\* (lethe.go:834-836, 857-859)
PushStore(t) ==
    /\ rpc[t] = "push_store"
    /\ LET r == rings[rl[t].buf]
       IN  rings' = [rings EXCEPT ![rl[t].buf].slots[Masked(r, rl[t].tail)] = rl[t].id]
    /\ accepted' = accepted \cup {rl[t].id}
    /\ WriteReturns(t, Len(Bytes(rl[t].id)), "", "push")
    /\ UNCHANGED <<buffer, contentionCount, droppedCount>>
    /\ UNCHANGED <<reservedAt, poppedLog, written>>
    /\ UNCHANGED ringFrame

\* writeAsync after the failed push: l.contentionCount.Add(1) (lethe.go:839)
Contention(t) ==
    /\ rpc[t] = "contention"
    /\ contentionCount' = contentionCount + 1
    /\ rl' = [rl EXCEPT ![t].events = Append(@, "contention")]
    /\ Go(t, "policy")
    /\ UNCHANGED <<buffer, rings, droppedCount>>
    /\ UNCHANGED <<accepted, reservedAt, poppedLog, results, written>>
    /\ UNCHANGED ringFrame

\* the drop policy without its counter
dropUncounted == UNCHANGED droppedCount

\* the drop policy: l.droppedCount.Add(1) (lethe.go:850)
dropCounted == droppedCount' = droppedCount + 1

\* the policy switch of writeAsync (lethe.go:841-867): drop counts and
\* returns (len(data), nil); adaptive enters tryAdaptiveResize, which
\* returns false at the maximum size and otherwise makes the new ring
\* (lethe.go:912-927); every other policy goes to writeSync
Policy(t) ==
    /\ rpc[t] = "policy"
    /\ LET policy == IF BackpressurePolicy = "" THEN "fallback" ELSE BackpressurePolicy
           currentSize == RingSize(rings[rl[t].buf])
           newSize == IF currentSize * 2 > MaxRingLen THEN MaxRingLen ELSE currentSize * 2
       IN  CASE policy = "drop" ->
                  /\ dropCounted
                  /\ WriteReturns(t, Len(Bytes(rl[t].id)), "", "drop")
                  /\ UNCHANGED <<rings, reservedAt>>
             [] policy = "adaptive" /\ currentSize >= MaxRingLen ->
                  /\ rl' = [rl EXCEPT ![t].events = Append(@, "resize")]
                  /\ Go(t, "sync")
                  /\ UNCHANGED <<rings, reservedAt, droppedCount, results>>
             [] policy = "adaptive" /\ currentSize < MaxRingLen ->
                  /\ rings' = Append(rings, ringBuffer(newSize))
                  /\ reservedAt' = Append(reservedAt, <<>>)
                  /\ rl' = [rl EXCEPT ![t].events = Append(@, "resize"),
                                      ![t].newbuf = Len(rings) + 1,
                                      ![t].drained = 0]
                  /\ Go(t, "pop_head")
                  /\ UNCHANGED <<droppedCount, results>>
             [] OTHER ->
                  /\ Go(t, "sync")
                  /\ UNCHANGED <<rings, reservedAt, droppedCount, results, rl>>
    /\ UNCHANGED <<buffer, contentionCount>>
    /\ UNCHANGED <<accepted, poppedLog, written>>
    /\ UNCHANGED ringFrame

\* the outcomes of writeSync: (n, nil); an error before the file is
\* loaded (lethe.go:775-792); an error of file.Write (lethe.go:799-802)
SyncOutcomes == {"", "init_error", "write_error"}

\* writeSync (lethe.go:755-817) as one step: unless the file cannot be
\* initialized, the contention counter is incremented if a rotation is in
\* progress (lethe.go:794-797); then the bytes are appended to the file and
\* (n, nil) is returned, or the write fails
SyncPath(t) ==
    /\ rpc[t] = "sync"
    /\ \E err \in SyncOutcomes :
          /\ contentionCount' =
                 IF rotationFlag /\ err # "init_error" THEN contentionCount + 1
                 ELSE contentionCount
          /\ IF err = ""
             THEN /\ WriteReturns(t, Len(Bytes(rl[t].id)), "", "sync")
                  /\ written' = Append(written, rl[t].id)
             ELSE /\ WriteReturns(t, 0, err, "sync")
                  /\ UNCHANGED written
    /\ UNCHANGED <<buffer, rings, droppedCount>>
    /\ UNCHANGED <<accepted, reservedAt, poppedLog>>
    /\ UNCHANGED ringFrame

\* the ticker of MPSCConsumer.run fires and flushAll calls pop
\* (unnamed/part_001:265-266, 302-305); run is in its select, not in the
\* final flush after which it returns
ConsumerTick ==
    /\ rpc[Cons] = "wait"
    /\ pc[Cons] # "c_final"
    /\ Go(Cons, "pop_head")
    /\ UNCHANGED <<buffer, rings, contentionCount, droppedCount, rl>>
    /\ UNCHANGED <<accepted, reservedAt, poppedLog, results, written>>
    /\ UNCHANGED ringFrame

\* pop: head := rb.head.Load() (unnamed/part_001:182)
PopLoadHead(q) ==
    /\ rpc[q] = "pop_head"
    /\ rl' = [rl EXCEPT ![q].head = rings[RingOf(q)].head]
    /\ Go(q, "pop_tail")
    /\ UNCHANGED <<buffer, rings, contentionCount, droppedCount>>
    /\ UNCHANGED <<accepted, reservedAt, poppedLog, results, written>>
    /\ UNCHANGED ringFrame

\* pop: tail := rb.tail.Load() and the empty test (unnamed/part_001:183-188);
\* on an empty ring flushAll returns to the select, and the drain loop of
\* tryAdaptiveResize ends (lethe.go:940-942)
PopLoadTail(q) ==
    /\ rpc[q] = "pop_tail"
    /\ IF rl[q].head >= rings[RingOf(q)].tail
       THEN /\ Go(q, IF q = Cons THEN "wait" ELSE "resize_cas")
            /\ UNCHANGED rl
       ELSE /\ rl' = [rl EXCEPT ![q].tail = rings[RingOf(q)].tail]
            /\ Go(q, "pop_cas")
    /\ UNCHANGED <<buffer, rings, contentionCount, droppedCount>>
    /\ UNCHANGED <<accepted, reservedAt, poppedLog, results, written>>
    /\ UNCHANGED ringFrame

\* pop: rb.head.CompareAndSwap(head, head+1) (unnamed/part_001:191); a
\* failed CAS retries the loop
PopCAS(q) ==
    /\ rpc[q] = "pop_cas"
    /\ IF rings[RingOf(q)].head = rl[q].head
       THEN /\ rings' = [rings EXCEPT ![RingOf(q)].head = @ + 1]
            /\ Go(q, "pop_slot")
       ELSE /\ Go(q, "pop_head")
            /\ UNCHANGED rings
    /\ UNCHANGED <<buffer, contentionCount, droppedCount, rl>>
    /\ UNCHANGED <<accepted, reservedAt, poppedLog, results, written>>
    /\ UNCHANGED ringFrame

\* pop: dataPtr := rb.buffer[idx].Load(); a nil slot continues the loop
\* (unnamed/part_001:192-198)
PopSlot(q) ==
    /\ rpc[q] = "pop_slot"
    /\ LET r == rings[RingOf(q)]
           dataPtr == r.slots[Masked(r, rl[q].head)]
       IN  IF dataPtr = 0
           THEN /\ Go(q, "pop_head")
                /\ UNCHANGED rl
           ELSE /\ rl' = [rl EXCEPT ![q].got = dataPtr]
                /\ Go(q, "pop_clear")
    /\ UNCHANGED <<buffer, rings, contentionCount, droppedCount>>
    /\ UNCHANGED <<accepted, reservedAt, poppedLog, results, written>>
    /\ UNCHANGED ringFrame

\* pop: rb.buffer[idx].Store(nil) and return data, true
\* (unnamed/part_001:199-202), to flushAll or to the drain loop
PopClear(q) ==
    /\ rpc[q] = "pop_clear"
    /\ LET r == rings[RingOf(q)]
       IN  rings' = [rings EXCEPT ![RingOf(q)].slots[Masked(r, rl[q].head)] = 0]
    /\ poppedLog' = Append(poppedLog, [ring |-> RingOf(q), id |-> rl[q].got, by |-> q])
    /\ Go(q, IF q = Cons THEN "consumer_write" ELSE "drain_push")
    /\ UNCHANGED <<buffer, contentionCount, droppedCount, rl>>
    /\ UNCHANGED <<accepted, reservedAt, results, written>>
    /\ UNCHANGED ringFrame

\* flushAll hands the payload to writeToFile, which writes it to the
\* current file, and calls pop again (unnamed/part_001:302-309, 318-324)
ConsumerWriteToFile ==
    /\ rpc[Cons] = "consumer_write"
    /\ written' = Append(written, rl[Cons].got)
    /\ rl' = [rl EXCEPT ![Cons] = NoRl]
    /\ Go(Cons, "pop_head")
    /\ UNCHANGED <<buffer, rings, contentionCount, droppedCount>>
    /\ UNCHANGED <<accepted, reservedAt, poppedLog, results>>
    /\ UNCHANGED ringFrame

\* the drain loop of tryAdaptiveResize (lethe.go:932-943): the popped
\* payload is pushed into the new ring, which no other thread holds yet; a
\* full new ring aborts the resize; the loop runs while drainedCount < 100
DrainPush(t) ==
    /\ rpc[t] = "drain_push"
    /\ LET n == rings[rl[t].newbuf]
       IN  IF pushSeesFull(n.tail, n.head, RingSize(n))
           THEN /\ Go(t, "sync")
                /\ UNCHANGED <<rings, reservedAt, rl>>
           ELSE /\ rings' = [rings EXCEPT ![rl[t].newbuf].tail = @ + 1,
                                          ![rl[t].newbuf].slots[Masked(n, n.tail)] = rl[t].got]
                /\ reservedAt' = [reservedAt EXCEPT ![rl[t].newbuf] = Append(@, rl[t].got)]
                /\ rl' = [rl EXCEPT ![t].drained = @ + 1, ![t].got = 0]
                /\ Go(t, IF rl[t].drained + 1 < 100 THEN "pop_head" ELSE "resize_cas")
    /\ UNCHANGED <<buffer, contentionCount, droppedCount>>
    /\ UNCHANGED <<accepted, poppedLog, results, written>>
    /\ UNCHANGED ringFrame

\* tryAdaptiveResize: l.buffer.CompareAndSwap(currentBuffer, newBuffer)
\* (lethe.go:946); on true writeAsync pushes again into the ring it loaded
\* at its start, on false it goes to writeSync (lethe.go:855-862)
ResizeCAS(t) ==
    /\ rpc[t] = "resize_cas"
    /\ IF buffer = rl[t].buf
       THEN /\ buffer' = rl[t].newbuf
            /\ rl' = [rl EXCEPT ![t].attempt = 2]
            /\ Go(t, "push_tail")
       ELSE /\ Go(t, "sync")
            /\ UNCHANGED <<buffer, rl>>
    /\ UNCHANGED <<rings, contentionCount, droppedCount>>
    /\ UNCHANGED <<accepted, reservedAt, poppedLog, results, written>>
    /\ UNCHANGED ringFrame

NextRing ==
    \/ \E t \in Producers : WriteAsync(t)
    \/ \E t \in Producers : PushLoadTail(t)
    \/ \E t \in Producers : PushLoadHead(t)
    \/ \E t \in Producers : PushCAS(t)
    \/ \E t \in Producers : PushStore(t)
    \/ \E t \in Producers : Contention(t)
    \/ \E t \in Producers : Policy(t)
    \/ \E t \in Producers : SyncPath(t)
    \/ ConsumerTick
    \/ \E q \in Threads : PopLoadHead(q)
    \/ \E q \in Threads : PopLoadTail(q)
    \/ \E q \in Threads : PopCAS(q)
    \/ \E q \in Threads : PopSlot(q)
    \/ \E q \in Threads : PopClear(q)
    \/ ConsumerWriteToFile
    \/ \E t \in Producers : DrainPush(t)
    \/ \E t \in Producers : ResizeCAS(t)

SpecRing == InitRing /\ [][NextRing]_vars

\* ---------------------------------------------------------------- observations of the ring
\* the payloads in a sequence
Range(s) == {s[i] : i \in 1..Len(s)}

\* the number of places of sequence s that hold x
Count(s, x) == Cardinality({i \in 1..Len(s) : s[i] = x})

\* the returned calls of Write whose first push failed
Backpressured == {i \in 1..Len(results) : results[i].events[1] # "push"}

\* the number of calls, returned or running, that have passed the
\* contention counter
Contended ==
    Cardinality({i \in 1..Len(results) : "contention" \in Range(results[i].events)})
        + Cardinality({t \in Producers : "contention" \in Range(rl[t].events)})

\* the number of returned calls in which writeSync found a rotation in
\* progress and counted it
SyncContended ==
    IF rotationFlag
    THEN Cardinality({i \in 1..Len(results) :
            "sync" \in Range(results[i].events) /\ results[i].err # "init_error"})
    ELSE 0

Popped == [i \in 1..Len(poppedLog) |-> poppedLog[i].id]

\* no call of Write is running, and the consumer is back at its select
\* after a pop that found its ring empty
RingIdle ==
    /\ \A t \in Producers : rpc[t] = "idle"
    /\ rpc[Cons] = "wait"
    /\ rings[consumer].head >= rings[consumer].tail

\* C27: with several producers and the one consumer (no adaptive resize),
\* no payload whose push returned true is returned by pop twice, and once
\* the producers have returned and the consumer has found the ring empty,
\* every such payload has been returned by pop exactly once.
C27_ExactlyOnce ==
    BackpressurePolicy # "adaptive" =>
        /\ \A id \in accepted : Count(Popped, id) <= 1
        /\ RingIdle => \A id \in accepted : Count(Popped, id) = 1

\* C28: in every ring, under every interleaving of the producers' pushes,
\* the consumer's pops and the pops of an adaptive resize, head <= tail and
\* tail - head <= the ring's length.
C28_RingBounds ==
    \A b \in 1..Len(rings) :
        /\ rings[b].head <= rings[b].tail
        /\ rings[b].tail - rings[b].head <= RingSize(rings[b])

\* the first ring is full again after the consumer and the drain loop of a
\* resize have both popped from it
C28_Witness ==
    /\ rings[1].tail - rings[1].head = RingSize(rings[1])
    /\ \E i \in 1..Len(poppedLog) : poppedLog[i].ring = 1 /\ poppedLog[i].by = Cons
    /\ \E i \in 1..Len(poppedLog) : poppedLog[i].ring = 1 /\ poppedLog[i].by \in Producers

\* the place of payload id in the order in which the tail values of ring b
\* were reserved
ReservedPlace(b, id) == CHOOSE k \in 1..Len(reservedAt[b]) : reservedAt[b][k] = id

\* C29: with the one consumer (no adaptive resize), pop returns the
\* payloads of a ring in the order in which their tail values were
\* reserved.
C29_FifoOrder ==
    BackpressurePolicy # "adaptive" =>
        \A i, j \in 1..Len(poppedLog) :
            (i < j /\ poppedLog[i].ring = poppedLog[j].ring)
                => ReservedPlace(poppedLog[i].ring, poppedLog[i].id)
                       < ReservedPlace(poppedLog[j].ring, poppedLog[j].id)

\* the reserved tail values of ring b whose payload pop has not returned
Unconsumed(b) ==
    {t \in 0..(Len(reservedAt[b]) - 1) :
        ~\E i \in 1..Len(poppedLog) :
            poppedLog[i].ring = b /\ poppedLog[i].id = reservedAt[b][t + 1]}

\* C30: the slot at index i of a ring is non-null if and only if a reserved
\* tail value t with t & mask = i has a payload that has not been consumed.
C30_SlotOccupancy ==
    \A b \in 1..Len(rings) :
        \A i \in 0..rings[b].mask :
            rings[b].slots[i] # 0
                <=> \E t \in Unconsumed(b) : Masked(rings[b], t) = i

\* the steps of ringBuffer.pop
PopSteps == {"pop_head", "pop_tail", "pop_cas", "pop_slot", "pop_clear"}

\* C31: pop is executed by the consumer goroutine only: no producer is
\* inside pop, and every head value was advanced, and every payload
\* returned, by the consumer, also while an adaptive resize is running.
C31_SingleConsumer ==
    /\ \A t \in Producers : rpc[t] \notin PopSteps
    /\ \A i \in 1..Len(poppedLog) : poppedLog[i].by = Cons

\* thread t has just won the CAS of triggerRotation on behalf of a write:
\* of writeSync (lethe.go:811-813) or of the consumer's writeToFile
\* (unnamed/part_001:329-331), not of Rotate
WriteRotationStarts(t) ==
    /\ pc[t] = "rot_close"
    /\ (t = Cons \/ local[t].data # 0)

\* C33: when a rotation triggered by a write starts, the active file
\* satisfies a threshold: it holds at least maxSizeBytes bytes (in the file
\* or in the byte counter), or its age has reached MaxAge.  So a freshly
\* opened file below both thresholds is not rotated, and a crossing seen by
\* several writers rotates once.
C33_NoSpuriousRotation ==
    \A t \in Threads :
        WriteRotationStarts(t) =>
            \/ /\ maxSizeBytes > 0
               /\ \/ Len(files[local[t].file].content) >= maxSizeBytes
                  \/ bytesWritten >= maxSizeBytes
            \/ ageElapsed

\* no Write, Rotate or Close call is running, no rotation holds the flag,
\* and the consumer is not started, waiting at its select or stopped, with
\* no payload left in a ring
NoWriteNoRotation ==
    /\ \A t \in Producers : pc[t] = "idle"
    /\ pc[Cons] \in {"c_off", "c_wait", "c_done"}
    /\ rotationFlag = FALSE
    /\ \A t \in Threads : ~Rotating(t)
    /\ RingDrained

\* C34: whenever no write and no rotation is in progress, bytesWritten
\* equals the size of the file whose handle is in the currentFile cell.
C34_ByteCounterAccuracy ==
    (NoWriteNoRotation /\ currentFile # NoFile)
        => bytesWritten = Len(files[currentFile].content)

\* a step in which the consumer gives up the payload it has popped:
\* writeToFile finds no file in the cell, or its file.Write fails, and
\* flushAll goes on to the next pop (unnamed/part_001:320-337, 305)
ConsumerDiscards ==
    /\ pc[Cons] \in {"c_clear", "c_write"}
    /\ pc'[Cons] = "c_pop"

\* C35: a payload the consumer has popped is written to the file, or its
\* loss is made observable: the step that gives the payload up reports an
\* error to the error sink or increments a counter.
C35_ConsumerAccounting ==
    [][ConsumerDiscards =>
          \/ errors' # errors
          \/ droppedCount' # droppedCount
          \/ contentionCount' # contentionCount]_vars

\* ---------------------------------------------------------------- drain specification
\* The ring specification with Close: the caller closes the logger when
\* its calls of Write have returned, the consumer makes its final flush and
\* returns, and Close returns.  There is no pool of background workers, and
\* the close of the file is part of the return.

\* Close, inside closeOnce.Do: consumer.stop cancels the consumer's context
\* and waits for the goroutine (lethe.go:1072-1076, unnamed/part_001:341-343)
RingClose(t) ==
    /\ rpc[t] = "idle"
    /\ \A p \in Producers : rpc[p] = "idle"
    /\ closeState = "open"
    /\ closeState' = "closing"
    /\ ctxDone' = TRUE
    /\ Go(t, "close_wait")
    /\ UNCHANGED <<cfgVars, cellVars, fsVars, buffer, rings, consumer, metricVars>>
    /\ UNCHANGED <<now, faults, errors, rotates, procVars, scaleVars, bgVars>>
    /\ UNCHANGED <<ctorVars, sizeVars, retryVars, rl, accepted, reservedAt, poppedLog, results, written>>

\* MPSCConsumer.run, the select takes ctx.Done and the final flushAll makes
\* its first call of pop (unnamed/part_001:259-262)
ConsumerFinalFlush ==
    /\ rpc[Cons] = "wait"
    /\ pc[Cons] = "c_off"
    /\ ctxDone
    /\ pc' = [pc EXCEPT ![Cons] = "c_final"]
    /\ Go(Cons, "pop_head")
    /\ UNCHANGED <<cfgVars, cellVars, fsVars, ringVars, metricVars, envVars>>
    /\ UNCHANGED <<local, calls, scaleVars, bgVars>>
    /\ UNCHANGED <<ctorVars, sizeVars, retryVars, rl, accepted, reservedAt, poppedLog, results, written>>

\* the final flushAll found the consumer's ring empty: run returns and its
\* deferred wg.Done runs (unnamed/part_001:250-252, 262)
ConsumerReturn ==
    /\ rpc[Cons] = "wait"
    /\ pc[Cons] = "c_final"
    /\ pc' = [pc EXCEPT ![Cons] = "c_done"]
    /\ Go(Cons, "exit")
    /\ UNCHANGED <<cfgVars, cellVars, fsVars, ringVars, metricVars, envVars>>
    /\ UNCHANGED <<local, calls, scaleVars, bgVars>>
    /\ UNCHANGED <<ctorVars, sizeVars, retryVars, rl, accepted, reservedAt, poppedLog, results, written>>

\* consumer.stop returns from wg.Wait, and Close closes the file and
\* returns (unnamed/part_001:343, lethe.go:1088-1093)
RingCloseReturn(t) ==
    /\ rpc[t] = "close_wait"
    /\ pc[Cons] = "c_done"
    /\ closeState' = "closed"
    /\ Go(t, "idle")
    /\ UNCHANGED <<cfgVars, cellVars, fsVars, ringVars, metricVars>>
    /\ UNCHANGED <<now, faults, errors, rotates, procVars, scaleVars, bgVars>>
    /\ UNCHANGED <<ctorVars, sizeVars, retryVars, rl, accepted, reservedAt, poppedLog, results, written>>

\* a call of Write begins while the logger is open
DrainWrite(t) ==
    /\ closeState = "open"
    /\ WriteAsync(t)

NextDrain ==
    \/ \E t \in Producers : DrainWrite(t)
    \/ \E t \in Producers : PushLoadTail(t)
    \/ \E t \in Producers : PushLoadHead(t)
    \/ \E t \in Producers : PushCAS(t)
    \/ \E t \in Producers : PushStore(t)
    \/ \E t \in Producers : Contention(t)
    \/ \E t \in Producers : Policy(t)
    \/ \E t \in Producers : SyncPath(t)
    \/ ConsumerTick
    \/ \E q \in Threads : PopLoadHead(q)
    \/ \E q \in Threads : PopLoadTail(q)
    \/ \E q \in Threads : PopCAS(q)
    \/ \E q \in Threads : PopSlot(q)
    \/ \E q \in Threads : PopClear(q)
    \/ ConsumerWriteToFile
    \/ \E t \in Producers : DrainPush(t)
    \/ \E t \in Producers : ResizeCAS(t)
    \/ \E t \in Producers : RingClose(t)
    \/ ConsumerFinalFlush
    \/ ConsumerReturn
    \/ \E t \in Producers : RingCloseReturn(t)

SpecDrain == InitRing /\ [][NextDrain]_vars

\* an adaptive resize has succeeded: the ring installed in Logger.buffer is
\* not the ring the logger started with
Resized == buffer # 1

\* the payloads that are in the installed ring by a push that returned
\* true: those the drain loop of the resize moved into it, and those pushed
\* by a Write that returned (len(data), nil)
InInstalledRing == Range(reservedAt[buffer]) \cap accepted

\* C32: after a successful adaptive resize the consumer drains the ring
\* installed in Logger.buffer: when Close has returned, every payload the
\* resize moved into the new ring and every payload a successful Write
\* pushed into it has been written to the file.
C32_InstalledRingDrained ==
    (closeState = "closed" /\ Resized) =>
        \A id \in InInstalledRing : id \in Range(written)

\* ---------------------------------------------------------------- statistics specification
\* Stats called by a goroutine while the producers push and the consumer
\* pops, under the policies that keep the ring (fallback and drop).

\* the fill level Stats reports (lethe.go:1217-1219)
bufferFill(head, tail) == IF tail >= head THEN tail - head ELSE 0

\* Stats: buffer := l.buffer.Load(), bufferSize = len(buffer.buffer) and
\* head := buffer.head.Load() (lethe.go:1211-1215)
StatsLoadHead(t) ==
    /\ rpc[t] = "idle"
    /\ rl' = [rl EXCEPT ![t] = [NoRl EXCEPT !.buf = buffer, !.head = rings[buffer].head]]
    /\ Go(t, "stats_tail")
    /\ UNCHANGED <<buffer, rings, contentionCount, droppedCount>>
    /\ UNCHANGED <<accepted, reservedAt, poppedLog, results, written>>
    /\ UNCHANGED ringFrame

\* Stats: tail := buffer.tail.Load() (lethe.go:1216)
StatsLoadTail(t) ==
    /\ rpc[t] = "stats_tail"
    /\ rl' = [rl EXCEPT ![t].tail = rings[rl[t].buf].tail]
    /\ Go(t, "stats_done")
    /\ UNCHANGED <<buffer, rings, contentionCount, droppedCount>>
    /\ UNCHANGED <<accepted, reservedAt, poppedLog, results, written>>
    /\ UNCHANGED ringFrame

\* Stats returns its snapshot (lethe.go:1233-1249)
StatsReturn(t) ==
    /\ rpc[t] = "stats_done"
    /\ rl' = [rl EXCEPT ![t] = NoRl]
    /\ Go(t, "idle")
    /\ UNCHANGED <<buffer, rings, contentionCount, droppedCount>>
    /\ UNCHANGED <<accepted, reservedAt, poppedLog, results, written>>
    /\ UNCHANGED ringFrame

InitStats ==
    /\ InitRing
    /\ BackpressurePolicy # "adaptive"
    /\ rotationFlag = FALSE

NextStats ==
    \/ \E t \in Producers : WriteAsync(t)
    \/ \E t \in Producers : PushLoadTail(t)
    \/ \E t \in Producers : PushLoadHead(t)
    \/ \E t \in Producers : PushCAS(t)
    \/ \E t \in Producers : PushStore(t)
    \/ \E t \in Producers : Contention(t)
    \/ \E t \in Producers : Policy(t)
    \/ \E t \in Producers : SyncPath(t)
    \/ ConsumerTick
    \/ PopLoadHead(Cons)
    \/ PopLoadTail(Cons)
    \/ PopCAS(Cons)
    \/ PopSlot(Cons)
    \/ PopClear(Cons)
    \/ ConsumerWriteToFile
    \/ \E t \in Producers : StatsLoadHead(t)
    \/ \E t \in Producers : StatsLoadTail(t)
    \/ \E t \in Producers : StatsReturn(t)

SpecStats == InitStats /\ [][NextStats]_vars

\* C39: every snapshot of Stats, taken while producers push and the
\* consumer pops, reports BufferFill <= BufferSize.
C39_StatsFillBounded ==
    \A t \in Producers :
        rpc[t] = "stats_done" =>
            bufferFill(rl[t].head, rl[t].tail) <= RingSize(rings[rl[t].buf])

\* C37: every task scheduleBackgroundTasks has for a rotation (cleanup if
\* MaxBackups > 0, checksum if Checksum, compress if Compress, for the
\* rotation's backup name) is put in the queue for a worker to execute;
\* none is discarded.  (Close is not called in this specification.)
C37_TasksNotDiscarded ==
    \A i \in 1..Len(tasks) : tasks[i].state \in {"queued", "taken", "running", "done"}

\* ---------------------------------------------------------------- stop specification
\* A rotation that schedules its background tasks while another goroutine
\* calls Close: goroutine p1 writes and rotates, and scheduleBackgroundTasks
\* and safeSubmitTask run in steps of one access to the pool each; goroutine
\* p2 calls Close, whose workers.stop cancels the context, closes the queue
\* and waits for the workers.  The rotation up to updateRotationState is one
\* step, and so is a write.

\* triggerRotation and performRotation up to updateRotationState
\* (lethe.go:1004-1009, unnamed/part_003:374-388, 428-473): the CAS on the
\* free flag, the close, the rename onto the backup name, the reopen, the
\* store of the new handle and the state update
StopRotate(t) ==
    /\ t = "p1"
    /\ pc[t] = "idle"
    /\ closeState = "open"
    /\ bgSteps.rotates < MaxPoolRotates
    /\ claimRotation
    /\ IsOpen(currentFile)
    /\ bgSteps' = [bgSteps EXCEPT !.rotates = @ + 1]
    /\ files' = Append([files EXCEPT ![currentFile].open = FALSE], NewFile)
    /\ disk' = [disk EXCEPT ![Path(now, "")] =
                   Entry(files[primary].content, files[primary].mtime)]
    /\ primary' = Len(files) + 1
    /\ currentFile' = Len(files) + 1
    /\ updateRotationState
    /\ rotationFlag' = TRUE
    /\ pc' = [pc EXCEPT ![t] = "sb_pool"]
    /\ local' = [local EXCEPT ![t] = [NoLocal EXCEPT !.backup = now]]
    /\ UNCHANGED <<cfgVars, initMutex, backups, ringVars, metricVars, envVars, calls, scaleVars>>
    /\ UNCHANGED <<unitVars, bgCfgVars, poolVars, workerVars, closeResults, waitLeft>>

\* the next task of the rotation of thread t, or the end of
\* scheduleBackgroundTasks
NextSubmit(t, k) ==
    IF k <= Len(wantedTasks(local[t].backup))
    THEN /\ pc' = [pc EXCEPT ![t] = "sb_check"]
         /\ local' = [local EXCEPT ![t].slot = k]
    ELSE /\ pc' = [pc EXCEPT ![t] = "sb_exit"]
         /\ local' = [local EXCEPT ![t].slot = 0]

\* scheduleBackgroundTasks creates the pool if the cell is nil and loads it
\* (unnamed/part_003:477-486)
SchedulePool(t) ==
    /\ pc[t] = "sb_pool"
    /\ bgWorkers' = TRUE
    /\ wpc' = IF bgWorkers THEN wpc ELSE [x \in Workers |-> "w_wait"]
    /\ NextSubmit(t, 1)
    /\ UNCHANGED <<cfgVars, cellVars, fsVars, ringVars, metricVars, envVars, calls, scaleVars>>
    /\ UNCHANGED <<unitVars, bgCfgVars, disk, bgCtxDone, queueClosed, taskQueue, tasks, activeTasks>>
    /\ UNCHANGED <<wlocal, closeResults, waitLeft, bgSteps>>

\* the record of a task the rotation of thread t has for the pool
Submitted(t, state) ==
    LET w == wantedTasks(local[t].backup)[local[t].slot]
    IN  [type |-> w.type, ts |-> w.ts, state |-> state]

\* safeSubmitTask, the first select (unnamed/part_003:516-527): the task is
\* not submitted when the context is cancelled
SubmitCheck(t) ==
    /\ pc[t] = "sb_check"
    /\ IF bgCtxDone
       THEN /\ tasks' = Append(tasks, Submitted(t, "refused"))
            /\ NextSubmit(t, local[t].slot + 1)
       ELSE /\ pc' = [pc EXCEPT ![t] = "sb_send"]
            /\ UNCHANGED <<tasks, local>>
    /\ UNCHANGED <<cfgVars, cellVars, fsVars, ringVars, metricVars, envVars, calls, scaleVars>>
    /\ UNCHANGED <<unitVars, bgCfgVars, disk, bgWorkers, bgCtxDone, queueClosed, taskQueue, activeTasks>>
    /\ UNCHANGED <<workerVars, closeResults, waitLeft, bgSteps>>

\* safeSubmitTask, the second select (unnamed/part_003:530-538).  Of the
\* cases that can proceed one is chosen at random: the send can proceed when
\* the queue has room, and when the queue is closed, where it panics; the
\* receive from ctx.Done can proceed when the context is cancelled; the
\* default case is taken when neither can.
SubmitSend(t) ==
    /\ pc[t] = "sb_send"
    /\ \/ /\ queueClosed
          /\ pc' = [pc EXCEPT ![t] = "sb_panic"]
          /\ errors' = errors \cup {"panic: send on closed channel"}
          /\ UNCHANGED <<tasks, taskQueue, local>>
       \/ /\ ~queueClosed
          /\ Len(taskQueue) < QueueCap
          /\ tasks' = Append(tasks, Submitted(t, "queued"))
          /\ taskQueue' = Append(taskQueue, Len(tasks) + 1)
          /\ NextSubmit(t, local[t].slot + 1)
          /\ UNCHANGED errors
       \/ /\ bgCtxDone
          /\ tasks' = Append(tasks, Submitted(t, "refused"))
          /\ NextSubmit(t, local[t].slot + 1)
          /\ UNCHANGED <<taskQueue, errors>>
       \/ /\ ~queueClosed
          /\ Len(taskQueue) >= QueueCap
          /\ ~bgCtxDone
          /\ tasks' = Append(tasks, Submitted(t, "skipped"))
          /\ NextSubmit(t, local[t].slot + 1)
          /\ UNCHANGED <<taskQueue, errors>>
    /\ UNCHANGED <<cfgVars, cellVars, fsVars, ringVars, metricVars, scaleVars>>
    /\ UNCHANGED <<now, faults, closeState, rotates, calls>>
    /\ UNCHANGED <<unitVars, bgCfgVars, disk, bgWorkers, bgCtxDone, queueClosed, activeTasks>>
    /\ UNCHANGED <<workerVars, closeResults, waitLeft, bgSteps>>

\* scheduleBackgroundTasks and performRotation return, and the deferred
\* rotationFlag.Store(false) of triggerRotation runs (lethe.go:1010-1015)
ScheduleReturn(t) ==
    /\ pc[t] = "sb_exit"
    /\ rotationFlag' = FALSE
    /\ pc' = [pc EXCEPT ![t] = "idle"]
    /\ local' = [local EXCEPT ![t] = NoLocal]
    /\ UNCHANGED <<currentFile, bytesWritten, rotationSeq, fileCreated, initMutex>>
    /\ UNCHANGED <<cfgVars, fsVars, ringVars, metricVars, envVars, calls, scaleVars>>
    /\ UNCHANGED <<bgVars, unitVars>>

\* Close, inside closeOnce.Do (lethe.go:1070-1081): no consumer in sync
\* mode; the pool is loaded, and without one Close goes on to the file
StopClose(t) ==
    /\ t = "p2"
    /\ pc[t] = "idle"
    /\ closeState = "open"
    /\ closeState' = "closing"
    /\ pc' = [pc EXCEPT ![t] = IF bgWorkers THEN "bg_cancel" ELSE "bg_file"]
    /\ UNCHANGED <<cfgVars, cellVars, fsVars, ringVars, metricVars, scaleVars>>
    /\ UNCHANGED <<now, faults, errors, rotates, local, calls>>
    /\ UNCHANGED <<bgVars, unitVars>>

\* BackgroundWorkers.stop: bg.cancel() (unnamed/part_003:787)
StopCancel(t) ==
    /\ pc[t] = "bg_cancel"
    /\ bgCtxDone' = TRUE
    /\ pc' = [pc EXCEPT ![t] = "bg_closeq"]
    /\ UNCHANGED <<cfgVars, cellVars, fsVars, ringVars, metricVars, envVars, local, calls, scaleVars>>
    /\ UNCHANGED <<unitVars, bgCfgVars, disk, bgWorkers, queueClosed, taskQueue, tasks, activeTasks>>
    /\ UNCHANGED <<workerVars, closeResults, waitLeft, bgSteps>>

\* BackgroundWorkers.stop: close(bg.taskQueue) (unnamed/part_003:788), and
\* then bg.wg.Wait()
StopCloseQueue(t) ==
    /\ pc[t] = "bg_closeq"
    /\ queueClosed' = TRUE
    /\ bgSteps' = [bgSteps EXCEPT !.stops = @ + 1]
    /\ pc' = [pc EXCEPT ![t] = "bg_stop"]
    /\ UNCHANGED <<cfgVars, cellVars, fsVars, ringVars, metricVars, envVars, local, calls, scaleVars>>
    /\ UNCHANGED <<unitVars, bgCfgVars, disk, bgWorkers, bgCtxDone, taskQueue, tasks, activeTasks>>
    /\ UNCHANGED <<workerVars, closeResults, waitLeft>>

NextStop ==
    \/ \E t \in Producers : BgWrite(t)
    \/ \E t \in Producers : StopRotate(t)
    \/ \E t \in Producers : SchedulePool(t)
    \/ \E t \in Producers : SubmitCheck(t)
    \/ \E t \in Producers : SubmitSend(t)
    \/ \E t \in Producers : ScheduleReturn(t)
    \/ \E t \in Producers : StopClose(t)
    \/ \E t \in Producers : StopCancel(t)
    \/ \E t \in Producers : StopCloseQueue(t)
    \/ \E t \in Producers : BgCloseWait(t)
    \/ \E t \in Producers : BgCloseFile(t)
    \/ \E w \in Workers : worker(w)
    \/ \E w \in Workers : processTask(w)
    \/ \E w \in Workers : taskDone(w)
    \/ \E w \in Workers : CleanupGlob(w)
    \/ \E w \in Workers : CleanupScan(w)
    \/ \E w \in Workers : CleanupRemove(w)
    \/ \E w \in Workers : CompressOpen(w)
    \/ \E w \in Workers : CompressCreate(w)
    \/ \E w \in Workers : CompressCopy(w)
    \/ \E w \in Workers : CompressRename(w)
    \/ \E w \in Workers : CompressRemove(w)
    \/ \E w \in Workers : ChecksumStat(w)
    \/ \E w \in Workers : ChecksumRead(w)
    \/ \E w \in Workers : ChecksumWrite(w)

SpecStop == InitBg /\ [][NextStop]_vars

\* C36: under every interleaving of a rotation that schedules background
\* tasks with a concurrent Close, safeSubmitTask executes no send on the
\* closed task queue.
C36_NoSendOnClosedQueue ==
    \A t \in Producers : pc[t] # "sb_panic"

\* a goroutine has panicked in safeSubmitTask
Panicked == \E t \in Producers : pc[t] = "sb_panic"

\* C38: Close returns after every background worker has exited (and, in
\* async mode, after the consumer's final drain): when Close has returned,
\* no worker goroutine of the pool is still running.
C38_CloseAfterWorkersExit ==
    (closeState = "closed" /\ ~Panicked) =>
        \A w \in Workers : wpc[w] \in {"w_off", "w_exit"}

\* ------------------------------------------------ RetryFileOperation
\* One call RetryFileOperation(operation, n, d) in steps of one loop
\* statement (part_003:202-226).  Durations are in milliseconds.  An
\* operation is the set of its calls that fail: its k-th call returns the
\* error k if k is in the set and nil otherwise; error 0 is no error.
MaxRetryCount == 4
RetryCounts == (0 - 1)..MaxRetryCount
RetryDelays == {0, 5}
Operations == SUBSET (1..MaxRetryCount)

\* if retryCount <= 0 { retryCount = 3 }
retryCountAsGiven(retryCount) == retryCount

retryCountOrDefault(retryCount) == IF retryCount <= 0 THEN 3 ELSE retryCount

\* if retryDelay <= 0 { retryDelay = 10 * time.Millisecond }
retryDelayOrDefault(retryDelay) == IF retryDelay <= 0 THEN 10 ELSE retryDelay

\* fmt.Errorf("operation failed after %d retries: %v", retryCount, lastErr)
RetryError(retryCount, lastErr) ==
    [nil |-> FALSE, retries |-> retryCount, cause |-> lastErr]

InitRetry ==
    /\ InitProgram
    /\ ~Async /\ BackpressurePolicy = "fallback" /\ maxSizeBytes = 1 /\ pathValid
    /\ CtorOff
    /\ SizeOff
    /\ RingOff
    /\ \E operation \in Operations, n \in RetryCounts, d \in RetryDelays :
         retry = [NoRetry EXCEPT !.pc = "called", !.operation = operation,
                                 !.n = n, !.d = d]

retryFrame == <<progVars, ctorVars, sizeVars, ringRunVars>>

\* the two defaults and the loop initialisation, part_003:203-210
RetryEnter ==
    /\ retry.pc = "called"
    /\ retry' = [retry EXCEPT !.retryCount = retryCountOrDefault(retry.n),
                              !.retryDelay = retryDelayOrDefault(retry.d),
                              !.i = 0, !.lastErr = 0, !.pc = "loop"]
    /\ UNCHANGED retryFrame

\* one iteration up to the sleep: err := operation(); nil returns nil, an
\* error is kept in lastErr (part_003:211-219)
RetryCall ==
    /\ retry.pc = "loop"
    /\ retry.i < retry.retryCount
    /\ LET k == retry.calls + 1 IN
         \/ /\ k \notin retry.operation
            /\ retry' = [retry EXCEPT !.calls = k, !.ret = NilError,
                                      !.pc = "done"]
         \/ /\ k \in retry.operation
            /\ retry.i < retry.retryCount - 1
            /\ retry' = [retry EXCEPT !.calls = k, !.lastErr = k,
                                      !.pc = "sleep"]
         \/ /\ k \in retry.operation
            /\ ~(retry.i < retry.retryCount - 1)
            /\ retry' = [retry EXCEPT !.calls = k, !.lastErr = k,
                                      !.i = retry.i + 1]
    /\ UNCHANGED retryFrame

\* time.Sleep(retryDelay) and the loop's i++ (part_003:220-222)
RetrySleep ==
    /\ retry.pc = "sleep"
    /\ retry' = [retry EXCEPT !.slept = retry.slept + retry.retryDelay,
                              !.i = retry.i + 1, !.pc = "loop"]
    /\ UNCHANGED retryFrame

\* the loop condition fails: return the wrapped last error (part_003:225)
RetryExhausted ==
    /\ retry.pc = "loop"
    /\ ~(retry.i < retry.retryCount)
    /\ retry' = [retry EXCEPT
                   !.ret = RetryError(retry.retryCount, retry.lastErr),
                   !.pc = "done"]
    /\ UNCHANGED retryFrame

NextRetry ==
    \/ RetryEnter
    \/ RetryCall
    \/ RetrySleep
    \/ RetryExhausted

SpecRetry == InitRetry /\ [][NextRetry]_vars

\* the number of calls the documentation allows for the argument n
AllowedCalls == IF retry.n > 0 THEN retry.n ELSE 3

\* C40: RetryFileOperation(op, n, d) calls op at most N times, N = n if
\* n > 0 and 3 otherwise; it stops at the first call of op that succeeds
\* and returns nil; it returns a non-nil error carrying the last failure if
\* and only if all N calls failed.
C40_RetryContract ==
    /\ retry.calls <= AllowedCalls
    /\ \A k \in 1..(retry.calls - 1) : k \in retry.operation
    /\ retry.pc = "done" =>
         /\ retry.ret.nil <=> retry.calls \notin retry.operation
         /\ retry.ret.nil => retry.calls >= 1
         /\ ~retry.ret.nil <=> \A k \in 1..AllowedCalls : k \in retry.operation
         /\ ~retry.ret.nil =>
              /\ retry.calls = AllowedCalls
              /\ retry.ret.cause = AllowedCalls
              /\ retry.ret.retries = AllowedCalls

\* a call with n = 0 has made its three calls, all failed, and returned the
\* error of the third
C40_DefaultCountExhausted ==
    /\ retry.pc = "done"
    /\ retry.n = 0
    /\ retry.calls = 3
    /\ ~retry.ret.nil
    /\ retry.ret.cause = 3

====
